---- MODULE Spec2Model ----
(***************************************************************************)
(* The cache / fan-out / fallback layer of the four data services of       *)
(* hawaii-today: WeatherService (src/src/services/weatherservice.ts),      *)
(* EventsService (src/src/services/eventsservice.ts), NewsService          *)
(* (src/unnamed/part_007) and SurfService (src/unnamed/part_008).          *)
(*                                                                         *)
(* The four services are singletons that share no state: each owns its     *)
(* cache, and cache entries of different keys never interact.  A behaviour *)
(* therefore follows one service and one cache key, the `query' chosen in  *)
(* Init.  The clock is in milliseconds, as Date.now() is.                  *)
(***************************************************************************)
EXTENDS Integers, Sequences, FiniteSets, TLC

VARIABLES
  query,     \* the call's arguments (fixed: the service and key under observation)
  conc,      \* TRUE: two overlapping callers and a frozen clock; FALSE: one caller, time passes
  now,       \* Date.now()
  cache,     \* the service's cache entry for the key of `query'
  call,      \* per caller: the position of its async call and what it holds
  everSet,   \* history: some cache.set for the key has happened
  shared     \* SurfService: the callers whose returned SurfData is the very object the
             \* cache entry holds (getSurfData returns cached.data and surfData by reference)

VARIABLES
  feeds,       \* NewsService: the enabled flag of each entry of RSS_FEEDS
  preClear,    \* NewsService, history (kept in the behaviours with one caller): the
               \* callers whose fan-out was in flight when the cache was last cleared
  staleEntry   \* NewsService, history: the entry was written by such a fan-out

newsVars == <<feeds, preClear, staleEntry>>

VARIABLES
  rateLimitMap,       \* the middleware's rateLimitMap: key -> {count, resetTime}
  routeRateLimitMap,  \* the newsletter route's rateLimitMap: ip -> {count, resetTime}
  response,           \* the response the middleware or the route handler returned last
  window              \* history: per key, the start of its current window and the
                      \* number of requests allowed since

webVars == <<rateLimitMap, routeRateLimitMap, response, window>>

VARIABLES
  beehiiv,      \* EmailService: BEEHIIV_API_KEY and BEEHIIV_PUBLICATION_ID are set
  subscribers,  \* EmailService.subscribers, the Map's entries in insertion order
  nextId,       \* the ids and tokens generated so far, plus one
  mcall,        \* per caller: the subscribeEmail call waiting for addToBeehiiv
  returned,     \* what subscribeEmail or unsubscribeEmail returned last
  lastOk,       \* history: per email, the call that last returned success
  stored,       \* history: the ids of the records ever stored in the Map
  briefing      \* the sendDailyBriefing call: its position, snapshot and counts

mailVars == <<beehiiv, subscribers, nextId, mcall, returned, lastOk, stored, briefing>>

\* the state of the four data services
serviceVars == <<query, conc, cache, call, everSet, shared, newsVars>>

vars == <<query, conc, now, cache, call, everSet, shared, newsVars, webVars, mailVars>>

----------------------------------------------------------------------------
(* Bounds of the model *)

\* the clock reaches MaxWindows * (ttl - 1) + MaxSlack milliseconds at most
MaxWindows == 1
MaxSlack == 2
\* the model keeps the first NumFeeds entries of NewsService.RSS_FEEDS
NumFeeds == 3

----------------------------------------------------------------------------
(* Program constants *)

WeatherService_CACHE_TTL_MINUTES == 15
EventsService_CACHE_TTL_MINUTES == 60
NewsService_CACHE_TTL_MINUTES == 15
SurfService_CACHE_TTL_MINUTES == 30

\* ttlMinutes * 60 * 1000
TtlMs(svc) ==
  CASE svc = "weather" -> WeatherService_CACHE_TTL_MINUTES * 60 * 1000
    [] svc = "events"  -> EventsService_CACHE_TTL_MINUTES * 60 * 1000
    [] svc = "news"    -> NewsService_CACHE_TTL_MINUTES * 60 * 1000
    [] svc = "surf"    -> SurfService_CACHE_TTL_MINUTES * 60 * 1000

Callers == {1, 2}

----------------------------------------------------------------------------
(* Cache entries *)

NoEntry == [present |-> FALSE]
Entry(d, t) == [present |-> TRUE, data |-> d, timestamp |-> t]

\* mutant of InlineFresh: <= in place of <
InlineFreshInclusive(e, t, ttl) == e.present /\ t - e.timestamp <= ttl

\* mutant of InlineFresh: the comparison inverted
InlineFreshInverted(e, t, ttl) == e.present /\ t - e.timestamp > ttl

\* the inline check of getEvents, getLatestNews and getSurfData:
\*   cached && Date.now() - cached.timestamp < CACHE_TTL_MINUTES * 60 * 1000
InlineFresh(e, t, ttl) == e.present /\ t - e.timestamp < ttl


----------------------------------------------------------------------------
(* Sequences *)

Min(a, b) == IF a < b THEN a ELSE b

\* Array.prototype.slice(0, n)
Slice(s, n) == SubSeq(s, 1, Min(n, Len(s)))

\* the outcome of one adapter call of a fan-out
\* st: the promise (none: not called; pending; fulfilled; rejected); up: what the
\* upstream did (history: "ok", "fail", or "bad" for a malformed payload); recs: the
\* value; seq: history, the promise settled as the seq-th of its fan-out (kept for
\* the services that merge their adapters' lists, 0 elsewhere)
Pending == [st |-> "pending", up |-> "", recs |-> <<>>, seq |-> 0]
NotCalled == [st |-> "none", up |-> "", recs |-> <<>>, seq |-> 0]
Fulfilled(up, recs) == [st |-> "fulfilled", up |-> up, recs |-> recs, seq |-> 0]
Rejected(up) == [st |-> "rejected", up |-> up, recs |-> <<>>, seq |-> 0]
Settled(r) == r.st \in {"fulfilled", "rejected"}

\* the promise of adapter a settles as r, after those of res that settled before
SettleAs(res, a, r) ==
  [res EXCEPT ![a] = [r EXCEPT !.seq = 1 + Cardinality({b \in DOMAIN res : Settled(res[b])})]]

\* a call in its fan-out: t0 and seen are history (the time of the cache check and
\* the entry it read)
InFanout(pc, res, t0, seen) == [pc |-> pc, res |-> res, t0 |-> t0, seen |-> seen]

\* how an async call settles: it resolves to a value, or it rejects
Resolve(v) == [rejected |-> FALSE, ret |-> v]
Reject == [rejected |-> TRUE, ret |-> <<>>]

\* a call that has settled, with its history: path is the branch that returned;
\* allFailed: every upstream call of the cycle failed; invoked: the upstream calls
\* the cycle started; prior: a cache.set for the key had happened before this
\* call returned
Done(settle, path, t0, seen, allFailed, invoked, prior) ==
  [pc |-> "done", rejected |-> settle.rejected, ret |-> settle.ret, path |-> path,
   t0 |-> t0, seen |-> seen, allFailed |-> allFailed, invoked |-> invoked, prior |-> prior]

\* mutant of AllSettled: the first promise to settle ends the wait
FirstSettled(res) == \E a \in DOMAIN res : Settled(res[a])

AllSettled(res) == \A a \in DOMAIN res : res[a].st # "pending"
Invoked(res) == Cardinality({a \in DOMAIN res : res[a].st # "none"})
AllFailed(res) == \A a \in DOMAIN res : res[a].st # "none" => res[a].up # "ok"

\* a caller that is not inside a call
Idle == [pc |-> "idle"]

----------------------------------------------------------------------------
(* NewsService, src/unnamed/part_007 *)

\* RSS_FEEDS: the publishers, in configured order
RSS_FEEDS == SubSeq(<<"Hawaii News Now", "KHON2", "KITV4",
                      "Honolulu Star-Advertiser", "Honolulu Civil Beat">>, 1, NumFeeds)

FeedIds == 1..Len(RSS_FEEDS)

\* 48 hours, in milliseconds: hoursOld = (Date.now() - publishDate) / (1000 * 60 * 60) > 48
MaxAgeHours == 48
HourMs == 3600000

\* calculateRelevanceScore, in hundredths: 0.1 per Hawaii keyword found in the text,
\* 0.05 for local/island/state, 0.05 for resident/community, 0.1 for
\* today/yesterday/breaking, capped at 1.0.  The text is the item's word counts.
calculateRelevanceScore(item) ==
  Min(10 * item.kw + (IF item.local THEN 5 ELSE 0) + (IF item.community THEN 5 ELSE 0)
        + (IF item.urgent THEN 10 ELSE 0), 100)

\* processArticle: null (here <<>>) under relevance 0.3, else the article; the mock
\* AI call returns the same relevance, so Math.max of the two is that relevance
processArticle(item, f) ==
  IF calculateRelevanceScore(item) < 30 THEN <<>>
  ELSE << [originalUrl |-> item.link, src |-> f,
           relevanceScore |-> calculateRelevanceScore(item),
           publishedAt |-> item.pubDate, category |-> item.cat] >>

\* fetchFeed, the loop over rssData.items.slice(0, 10)
RECURSIVE fetchFeedItems(_, _, _)
fetchFeedItems(items, f, t) ==
  IF items = <<>> THEN <<>>
  ELSE LET item == Head(items)
           rest == fetchFeedItems(Tail(items), f, t)
       IN IF item.link = 0 THEN rest                                  \* !item.title || !item.link
          ELSE IF t - item.pubDate > MaxAgeHours * HourMs THEN rest   \* hoursOld > 48
          ELSE processArticle(item, f) \o rest

\* mutant of fetchFeed: the catch returns a default article
fetchFeedDefaultOnError(f, upstream, t) ==
  IF upstream.ok THEN fetchFeedItems(Slice(upstream.items, 10), f, t)
  ELSE << [originalUrl |-> 9, src |-> f, relevanceScore |-> 50, publishedAt |-> t,
           category |-> "local"] >>

\* fetchFeed: parseURL rejects -> the catch returns []
fetchFeed(f, upstream, t) ==
  IF upstream.ok THEN fetchFeedItems(Slice(upstream.items, 10), f, t) ELSE <<>>

\* what a feed's URL can answer: an error, or one of these item lists
RssItem(link, kw, pubDate) ==
  [link |-> link, kw |-> kw, local |-> FALSE, community |-> FALSE, urgent |-> FALSE,
   pubDate |-> pubDate, cat |-> "local"]

RssAnswers ==
  { [ok |-> FALSE, items |-> <<>>],
    \* nothing usable: a low-relevance item, an item older than 48 hours, an item without link
    [ok |-> TRUE, items |-> << RssItem(3, 2, 0), RssItem(3, 5, 0 - 49 * HourMs), RssItem(0, 5, 0) >>],
    \* two articles of equal relevance (0.5), the older one first in the feed
    [ok |-> TRUE, items |-> << [RssItem(1, 4, 0) EXCEPT !.urgent = TRUE], RssItem(2, 5, 60000) >>] }

\* fetchAllFeeds, lines 135-150: flatten in feed order, first URL seen wins
RECURSIVE DedupNews(_, _)
DedupNews(articles, seenUrls) ==
  IF articles = <<>> THEN <<>>
  ELSE LET a == Head(articles)
       IN IF a.originalUrl \in seenUrls THEN DedupNews(Tail(articles), seenUrls)
          ELSE <<a>> \o DedupNews(Tail(articles), seenUrls \cup {a.originalUrl})

\* mutant of FlattenResults: the results walked from the last adapter to the first
RECURSIVE FlattenResultsReversed(_, _)
FlattenResultsReversed(res, ids) ==
  IF ids = <<>> THEN <<>>
  ELSE FlattenResultsReversed(res, Tail(ids))
         \o (IF res[Head(ids)].st = "fulfilled" THEN res[Head(ids)].recs ELSE <<>>)

\* mutant of FlattenResults: the results walked in the order the promises settled
RECURSIVE FlattenBySettleOrder(_, _)
FlattenBySettleOrder(res, ids) ==
  IF ids = <<>> THEN <<>>
  ELSE FlattenBySettleOrder(res, SubSeq(ids, 1, Len(ids) - 1))
         \o (IF \E a \in DOMAIN res : res[a].seq = Len(ids) /\ res[a].st = "fulfilled"
             THEN res[CHOOSE a \in DOMAIN res : res[a].seq = Len(ids) /\ res[a].st = "fulfilled"].recs
             ELSE <<>>)

\* Promise.allSettled and the forEach over its results: the fulfilled values in the
\* order of the promises
RECURSIVE FlattenResults(_, _)
FlattenResults(res, ids) ==
  IF ids = <<>> THEN <<>>
  ELSE (IF res[Head(ids)].st = "fulfilled" THEN res[Head(ids)].recs ELSE <<>>)
         \o FlattenResults(res, Tail(ids))

RECURSIVE Upto(_)
Upto(n) == IF n = 0 THEN <<>> ELSE Append(Upto(n - 1), n)

fetchAllFeeds(res) == DedupNews(FlattenResults(res, Upto(Len(RSS_FEEDS))), {})

\* mutant of NewsCompare: the scores alone, no tie-break
NewsCompareScoreOnly(a, b) == b.relevanceScore - a.relevanceScore

\* the comparator of getLatestNews, lines 103-110: negative when a sorts before b
NewsCompare(a, b) ==
  IF a.relevanceScore # b.relevanceScore THEN b.relevanceScore - a.relevanceScore
  ELSE b.publishedAt - a.publishedAt

\* Array.prototype.sort with that comparator (a stable sort)
RECURSIVE NewsInsert(_, _)
NewsInsert(sorted, x) ==
  IF sorted = <<>> THEN <<x>>
  ELSE IF NewsCompare(x, Head(sorted)) < 0 THEN <<x>> \o sorted
  ELSE <<Head(sorted)>> \o NewsInsert(Tail(sorted), x)

RECURSIVE NewsSort(_)
NewsSort(s) == IF s = <<>> THEN <<>> ELSE NewsInsert(NewsSort(SubSeq(s, 1, Len(s) - 1)), s[Len(s)])

\* getLatestNews, lines 97-113: filter by category, sort, slice
NewsPipeline(articles, category, limit) ==
  LET filtered == IF category # "" THEN SelectSeq(articles, LAMBDA a : a.category = category)
                  ELSE articles
  IN Slice(NewsSort(filtered), limit)

\* getFallbackNews
getFallbackNews(t) ==
  << [originalUrl |-> 0, src |-> 0, relevanceScore |-> 50, publishedAt |-> t, category |-> "local"] >>

\* getLatestNews, lines 119-125: the catch block
getLatestNewsCatch(entry, t) ==
  Resolve(IF entry.present THEN entry.data ELSE getFallbackNews(t))

\* Whether the try block of getLatestNews (lines 93-118) throws: fetchFeed and
\* processArticle catch every error of theirs and filter, sort and slice do not throw
NewsTryThrows(res) == FALSE

\* mutant of fetchAllFeedsStarts: every feed is fetched, enabled or not
fetchAllFeedsStartsAll(enabled) == [f \in FeedIds |-> Pending]

\* fetchAllFeeds, lines 129-131: fetchFeed is called for the feeds that are enabled
fetchAllFeedsStarts(enabled) == [f \in FeedIds |-> IF enabled[f] THEN Pending ELSE NotCalled]

\* mutant of GetLatestNews: the feeds are fetched one after the other, and the
\* first await is on the first feed alone
GetLatestNewsSequential(c) ==
  /\ query.svc = "news"
  /\ call[c].pc = "idle"
  /\ conc \/ c = 1
  /\ IF InlineFresh(cache, now, TtlMs("news"))
       THEN call' = [call EXCEPT ![c] = Done(Resolve(cache.data), "hit", now, cache, FALSE, 0, everSet)]
       ELSE call' = [call EXCEPT ![c] =
                       InFanout("fanout", [f \in FeedIds |-> IF f = 1 THEN Pending ELSE NotCalled],
                                now, cache)]
  /\ UNCHANGED <<query, conc, now, cache, everSet, shared, newsVars, webVars, mailVars>>

\* getLatestNews up to its first await: the cache check (lines 85-91), then
\* fetchAllFeeds starts fetchFeed for every feed (lines 129-131)
GetLatestNews(c) ==
  /\ query.svc = "news"
  /\ call[c].pc = "idle"
  /\ conc \/ c = 1
  /\ IF InlineFresh(cache, now, TtlMs("news"))
       THEN call' = [call EXCEPT ![c] = Done(Resolve(cache.data), "hit", now, cache, FALSE, 0, everSet)]
       ELSE call' = [call EXCEPT ![c] =
                       InFanout("fanout", fetchAllFeedsStarts(feeds), now, cache)]
  /\ UNCHANGED <<query, conc, now, cache, everSet, shared, newsVars, webVars, mailVars>>

\* one fetchFeed promise settles (lines 153-185)
FetchFeedSettles(c, f) ==
  /\ query.svc = "news"
  /\ call[c].pc = "fanout"
  /\ call[c].res[f].st = "pending"
  /\ \E a \in RssAnswers :
       call' = [call EXCEPT ![c].res =
                  SettleAs(@, f, Fulfilled(IF a.ok THEN "ok" ELSE "fail", fetchFeed(f, a, now)))]
  /\ UNCHANGED <<query, conc, now, cache, everSet, shared, newsVars, webVars, mailVars>>

\* getLatestNews after Promise.allSettled: lines 133-150 and 97-125
GetLatestNewsResumes(c) ==
  /\ query.svc = "news"
  /\ call[c].pc = "fanout"
  /\ AllSettled(call[c].res)
  /\ LET res == call[c].res
         result == NewsPipeline(fetchAllFeeds(res), query.category, query.limit)
     IN IF NewsTryThrows(res)
          THEN /\ call' = [call EXCEPT ![c] =
                             Done(getLatestNewsCatch(cache, now), "catch", call[c].t0,
                                  call[c].seen, AllFailed(res), Invoked(res), everSet)]
               /\ UNCHANGED <<cache, everSet>>
          ELSE /\ cache' = Entry(result, now)
               /\ everSet' = TRUE
               /\ call' = [call EXCEPT ![c] =
                             Done(Resolve(result), "fresh", call[c].t0, call[c].seen,
                                  AllFailed(res), Invoked(res), everSet)]
  /\ staleEntry' = IF NewsTryThrows(call[c].res) THEN staleEntry ELSE c \in preClear
  /\ preClear' = preClear \ {c}
  /\ UNCHANGED <<query, conc, now, shared, feeds, webVars, mailVars>>

----------------------------------------------------------------------------
(* EventsService, src/src/services/eventsservice.ts *)

\* EVENT_SOURCES, in configured order, and their enabled flags
EVENT_SOURCES ==
  << [name |-> "Eventbrite Hawaii", type |-> "api", enabled |-> TRUE],
     [name |-> "Facebook Events", type |-> "api", enabled |-> FALSE],
     [name |-> "Hawaii Tourism Authority", type |-> "scraper", enabled |-> TRUE],
     [name |-> "Honolulu Magazine Events", type |-> "scraper", enabled |-> TRUE] >>

SourceIds == 1..Len(EVENT_SOURCES)

DayMs == 86400000

EventData(title, startDate, locName, src) ==
  [title |-> title, startDate |-> startDate, locName |-> locName, island |-> "oahu",
   category |-> "culture", free |-> TRUE, imageUrl |-> FALSE, src |-> src]

\* scrapeHTAEvents: the mock event, ten days ahead of the scrape, kept when it is
\* within daysAhead
scrapeHTAEvents(t, daysAhead) ==
  SelectSeq(<< EventData("Honolulu Festival", t + 10 * DayMs, "Waikiki Beach Walk", 3) >>,
            LAMBDA e : e.startDate <= t + daysAhead * DayMs)

\* scrapeHonoluluMagEvents
scrapeHonoluluMagEvents == <<>>

\* what the Eventbrite API can answer to a call started at t0: an HTTP error, a
\* malformed payload (parseEventbriteEvents throws), no event, one event that starts
\* 72 hours and a millisecond after the model's time 0, or two events: one
\* with the title, start and venue of the HTA event and a logo, and a paid outdoor
\* event an hour after the model's time 0
EventbriteAnswers(t0) ==
  { [up |-> "fail", events |-> <<>>],
    [up |-> "bad", events |-> <<>>],
    [up |-> "ok", events |-> <<>>],
    [up |-> "ok", events |->
       << [EventData("Slack Key Concert", 72 * HourMs + 1, "Blue Note Hawaii", 1)
             EXCEPT !.category = "music"] >>],
    [up |-> "ok", events |->
       << [EventData("Honolulu Festival", t0 + 10 * DayMs, "Waikiki Beach Walk", 1)
             EXCEPT !.imageUrl = TRUE],
          [EventData("Lei Day", EventsService_CACHE_TTL_MINUTES * 60 * 1000, "Kapiolani Park", 1)
             EXCEPT !.free = FALSE, !.category = "outdoor"] >>] }

\* mutant of fetchEventbriteEvents: the catch returns a default event
fetchEventbriteEventsDefault(answer) ==
  IF answer.up = "ok" THEN answer.events
  ELSE << EventData("KCC Farmers Market", 0, "Kapiolani Community College", 9) >>

\* fetchEventbriteEvents: every error is caught and [] returned (lines 235-238)
fetchEventbriteEvents(answer) == IF answer.up = "ok" THEN answer.events ELSE <<>>

\* fetchFromAllSources, lines 177-193: first title-startDate-location.name seen wins
EventKey(e) == <<e.title, e.startDate, e.locName>>

RECURSIVE DedupEvents(_, _)
DedupEvents(events, seenEvents) ==
  IF events = <<>> THEN <<>>
  ELSE LET e == Head(events)
       IN IF EventKey(e) \in seenEvents THEN DedupEvents(Tail(events), seenEvents)
          ELSE <<e>> \o DedupEvents(Tail(events), seenEvents \cup {EventKey(e)})

fetchFromAllSources(res) == DedupEvents(FlattenResults(res, Upto(Len(EVENT_SOURCES))), {})

\* filterEvents: by island, by category, and no event that started before now
filterEvents(events, island, category, t) ==
  SelectSeq(events, LAMBDA e : /\ (island # "" => e.island = island)
                               /\ (category # "" => e.category = category)
                               /\ ~(e.startDate < t))

\* Array.prototype.sort with the comparator of lines 148-152: dateA - dateB
RECURSIVE EventsInsert(_, _)
EventsInsert(sorted, x) ==
  IF sorted = <<>> THEN <<x>>
  ELSE IF x.startDate - Head(sorted).startDate < 0 THEN <<x>> \o sorted
  ELSE <<Head(sorted)>> \o EventsInsert(Tail(sorted), x)

RECURSIVE EventsSort(_)
EventsSort(s) ==
  IF s = <<>> THEN <<>> ELSE EventsInsert(EventsSort(SubSeq(s, 1, Len(s) - 1)), s[Len(s)])

\* Date.prototype.getDay (0 is Sunday) of a time of the model, whose time 0 is a
\* Saturday, 8 AM
getDay(t) == (6 + ((t + 8 * HourMs) \div DayMs)) % 7

\* mutant of calculateEventScore: the three-day boost needs less than 72 hours
calculateEventScoreStrict(event, t) ==
  (IF event.free THEN 2 ELSE 0)
  + (IF event.category \in {"music", "food", "culture"} THEN 1 ELSE 0)
  + (IF event.imageUrl THEN 1 ELSE 0)
  + (IF getDay(event.startDate) \in {0, 6} THEN 1 ELSE 0)
  + (IF event.startDate - t < 72 * HourMs THEN 2 ELSE 0)

\* calculateEventScore, at time t
calculateEventScore(event, t) ==
  (IF event.free THEN 2 ELSE 0)
  + (IF event.category \in {"music", "food", "culture"} THEN 1 ELSE 0)
  + (IF event.imageUrl THEN 1 ELSE 0)
  + (IF getDay(event.startDate) \in {0, 6} THEN 1 ELSE 0)
  + (IF event.startDate - t <= 72 * HourMs THEN 2 ELSE 0)

\* getFallbackEvents: the farmers market on O'ahu next Saturday, 8 AM.  The clock of
\* the model starts on a Saturday at 8 AM, so getNextSaturday is seven days from 0.
getFallbackEvents(island) ==
  SelectSeq(<< [EventData("Weekly Farmers Market", 7 * DayMs, "KCC Farmers Market", 0)
                  EXCEPT !.category = "food"] >>,
            LAMBDA e : island = "" \/ e.island = island)

\* getEvents, lines 161-167: the catch block
getEventsCatch(entry, island) ==
  Resolve(IF entry.present THEN entry.data ELSE getFallbackEvents(island))

\* Whether the try block of getEvents (lines 140-160) throws: fetchFromSource catches
\* every error and filter, sort and slice do not throw
EventsTryThrows(res) == FALSE

\* mutant of GetEvents: a call that finds another call in flight starts no request
GetEventsCoalesced(c) ==
  /\ query.svc = "events"
  /\ call[c].pc = "idle"
  /\ conc \/ c = 1
  /\ IF InlineFresh(cache, now, TtlMs("events"))
       THEN call' = [call EXCEPT ![c] = Done(Resolve(cache.data), "hit", now, cache, FALSE, 0, everSet)]
       ELSE call' = [call EXCEPT ![c] =
                       InFanout("fanout",
                                [s \in SourceIds |->
                                   IF EVENT_SOURCES[s].enabled
                                      /\ \A d \in Callers : call[d].pc # "fanout"
                                   THEN Pending ELSE NotCalled],
                                now, cache)]
  /\ UNCHANGED <<query, conc, now, cache, everSet, shared, newsVars, webVars, mailVars>>

\* getEvents up to its first await: the cache check (lines 132-138), then
\* fetchFromAllSources starts fetchFromSource for every enabled source (lines 171-173)
GetEvents(c) ==
  /\ query.svc = "events"
  /\ call[c].pc = "idle"
  /\ conc \/ c = 1
  /\ IF InlineFresh(cache, now, TtlMs("events"))
       THEN call' = [call EXCEPT ![c] = Done(Resolve(cache.data), "hit", now, cache, FALSE, 0, everSet)]
       ELSE call' = [call EXCEPT ![c] =
                       InFanout("fanout",
                                [s \in SourceIds |->
                                   IF EVENT_SOURCES[s].enabled THEN Pending ELSE NotCalled],
                                now, cache)]
  /\ UNCHANGED <<query, conc, now, cache, everSet, shared, newsVars, webVars, mailVars>>

\* one fetchFromSource promise settles (lines 196-216); the scrapers' mock events
\* were computed when the call started
FetchFromSourceSettles(c, s) ==
  /\ query.svc = "events"
  /\ call[c].pc = "fanout"
  /\ call[c].res[s].st = "pending"
  /\ \/ /\ EVENT_SOURCES[s].name = "Eventbrite Hawaii"
        /\ \E a \in EventbriteAnswers(call[c].t0) :
             call' = [call EXCEPT ![c].res =
                        SettleAs(@, s, Fulfilled(a.up, fetchEventbriteEvents(a)))]
     \/ /\ EVENT_SOURCES[s].name = "Hawaii Tourism Authority"
        /\ call' = [call EXCEPT ![c].res =
                      SettleAs(@, s, Fulfilled("ok", scrapeHTAEvents(call[c].t0, query.daysAhead)))]
     \/ /\ EVENT_SOURCES[s].name = "Honolulu Magazine Events"
        /\ call' = [call EXCEPT ![c].res = SettleAs(@, s, Fulfilled("ok", scrapeHonoluluMagEvents))]
  /\ UNCHANGED <<query, conc, now, cache, everSet, shared, newsVars, webVars, mailVars>>

\* getEvents after Promise.allSettled: lines 175-193 and 144-167
GetEventsResumes(c) ==
  /\ query.svc = "events"
  /\ call[c].pc = "fanout"
  /\ AllSettled(call[c].res)
  /\ LET res == call[c].res
         filteredEvents == filterEvents(fetchFromAllSources(res), query.island,
                                        query.category, now)
         result == Slice(EventsSort(filteredEvents), query.limit)
     IN IF EventsTryThrows(res)
          THEN /\ call' = [call EXCEPT ![c] =
                             Done(getEventsCatch(cache, query.island), "catch", call[c].t0,
                                  call[c].seen, AllFailed(res), Invoked(res), everSet)]
               /\ UNCHANGED <<cache, everSet>>
          ELSE /\ cache' = Entry(result, now)
               /\ everSet' = TRUE
               /\ call' = [call EXCEPT ![c] =
                             Done(Resolve(result), "fresh", call[c].t0, call[c].seen,
                                  AllFailed(res), Invoked(res), everSet)]
  /\ UNCHANGED <<query, conc, now, shared, newsVars, webVars, mailVars>>

----------------------------------------------------------------------------
(* WeatherService, src/src/services/weatherservice.ts *)

\* Cache.set: { data, timestamp: Date.now(), ttl: ttlMinutes * 60 * 1000 }
CacheSet(d, t, ttlMinutes) ==
  [present |-> TRUE, data |-> d, timestamp |-> t, ttl |-> ttlMinutes * 60 * 1000]

\* mutant of CacheGet: the entry expires one millisecond early
CacheGetEarly(e, t) ==
  IF ~e.present THEN [hit |-> FALSE, store |-> e]
  ELSE IF t - e.timestamp >= e.ttl - 1 THEN [hit |-> FALSE, store |-> NoEntry]
  ELSE [hit |-> TRUE, store |-> e]

\* mutant of CacheGet: a read takes the entry out of the map
CacheGetEvicts(e, t) ==
  IF ~e.present THEN [hit |-> FALSE, store |-> e]
  ELSE IF t - e.timestamp > e.ttl THEN [hit |-> FALSE, store |-> NoEntry]
  ELSE [hit |-> TRUE, store |-> NoEntry]

\* Cache.get: null without entry; an entry with Date.now() - timestamp > ttl is
\* deleted and null returned; else its data.  store is the map's entry afterwards.
CacheGet(e, t) ==
  IF ~e.present THEN [hit |-> FALSE, store |-> e]
  ELSE IF t - e.timestamp > e.ttl THEN [hit |-> FALSE, store |-> NoEntry]
  ELSE [hit |-> TRUE, store |-> e]

\* ISLAND_COORDINATES
ISLAND_COORDINATES == {"oahu", "maui", "hawaii", "kauai", "molokai", "lanai"}

\* the four NOAA requests of fetchNOAAWeather
NoaaPoints == 1
NoaaGrid == 2
NoaaForecast == 3
NoaaAlerts == 4
NoaaIds == {NoaaPoints, NoaaGrid, NoaaForecast, NoaaAlerts}

\* what a NOAA URL can answer: a payload, an error (HTTP status, network, abort at
\* the timeout), or JSON the parser of that payload throws on
NoaaAnswers == {"ok", "fail", "bad"}

\* fetchWithTimeout: rejects on an error, resolves to the JSON otherwise
fetchWithTimeout(up) == IF up = "fail" THEN Rejected(up) ELSE Fulfilled(up, <<>>)

WeatherData(current, forecast, alerts, t) ==
  [current |-> current, forecast |-> forecast, alerts |-> alerts, lastUpdated |-> t]

\* getFallbackWeatherData: getDefaultCurrent, getDefaultForecast, no alert
getFallbackWeatherData(t) == WeatherData("default", "default", "none", t)

\* fetchNOAAWeather, lines 116-131: a rejected request yields the default part
ParseNOAA(res, t) ==
  WeatherData(IF res[NoaaGrid].st = "fulfilled" THEN "parsed" ELSE "default",
              IF res[NoaaForecast].st = "fulfilled" THEN "parsed" ELSE "default",
              IF res[NoaaAlerts].st = "fulfilled" THEN "parsed" ELSE "none",
              t)

\* a parser threw on one of the fulfilled payloads
ParseThrows(res) == \E a \in DOMAIN res : res[a].st = "fulfilled" /\ res[a].up = "bad"

\* fetchNOAAWeather as a whole: its catch block logs and throws the error on (lines
\* 133-136), so it rejects when the request for the grid points was rejected or a
\* parser threw, and resolves to the parsed data otherwise
fetchNOAAWeather(res, t) ==
  IF res[NoaaPoints].st = "rejected" \/ ParseThrows(res) THEN Reject
  ELSE Resolve(ParseNOAA(res, t))

\* mutant of getWeatherDataCatch: the catch block throws the error on
getWeatherDataRethrows(t) == Reject

\* getWeatherData, lines 83-88: the catch block
getWeatherDataCatch(t) == Resolve(getFallbackWeatherData(t))

\* getWeatherData up to its first await: cache.get (lines 63-69), the coordinates
\* (lines 72-75), and fetchNOAAWeather's request for the grid points (lines 94-97)
GetWeatherData(c) ==
  /\ query.svc = "weather"
  /\ call[c].pc = "idle"
  /\ conc \/ c = 1
  /\ LET got == CacheGet(cache, now)
     IN /\ cache' = got.store
        /\ IF got.hit
             THEN call' = [call EXCEPT ![c] = Done(Resolve(cache.data), "hit", now, cache, FALSE, 0, everSet)]
             ELSE IF query.island \notin ISLAND_COORDINATES
               THEN call' = [call EXCEPT ![c] =
                               Done(getWeatherDataCatch(now), "catch", now, cache, FALSE, 0, everSet)]
               ELSE call' = [call EXCEPT ![c] =
                               InFanout("points",
                                        [a \in NoaaIds |->
                                           IF a = NoaaPoints THEN Pending ELSE NotCalled],
                                        now, cache)]
  /\ UNCHANGED <<query, conc, now, everSet, shared, newsVars, webVars, mailVars>>

\* one fetchWithTimeout promise settles (lines 139-157)
FetchWithTimeoutSettles(c, a) ==
  /\ query.svc = "weather"
  /\ call[c].pc \in {"points", "fanout"}
  /\ call[c].res[a].st = "pending"
  /\ \E up \in NoaaAnswers : call' = [call EXCEPT ![c].res[a] = fetchWithTimeout(up)]
  /\ UNCHANGED <<query, conc, now, cache, everSet, shared, newsVars, webVars, mailVars>>

\* fetchNOAAWeather after the grid points: lines 99-114 start the three requests; a
\* rejected request or a payload without properties throws (lines 133-136), and
\* getWeatherData's catch returns the fallback
FetchNOAAWeatherFansOut(c) ==
  /\ query.svc = "weather"
  /\ call[c].pc = "points"
  /\ Settled(call[c].res[NoaaPoints])
  /\ LET res == call[c].res
     IN IF fetchNOAAWeather(res, now).rejected
          THEN call' = [call EXCEPT ![c] =
                          Done(getWeatherDataCatch(now), "catch", call[c].t0, call[c].seen,
                               AllFailed(res), Invoked(res), everSet)]
          ELSE call' = [call EXCEPT ![c] =
                          InFanout("fanout",
                                   [a \in NoaaIds |-> IF a = NoaaPoints THEN res[a] ELSE Pending],
                                   call[c].t0, call[c].seen)]
  /\ UNCHANGED <<query, conc, now, cache, everSet, shared, newsVars, webVars, mailVars>>

\* getWeatherData after Promise.allSettled: lines 116-131 and 80-88
GetWeatherDataResumes(c) ==
  /\ query.svc = "weather"
  /\ call[c].pc = "fanout"
  /\ AllSettled(call[c].res)
  /\ LET res == call[c].res
         weatherData == fetchNOAAWeather(res, now).ret
     IN IF fetchNOAAWeather(res, now).rejected
          THEN /\ call' = [call EXCEPT ![c] =
                             Done(getWeatherDataCatch(now), "catch", call[c].t0, call[c].seen,
                                  AllFailed(res), Invoked(res), everSet)]
               /\ UNCHANGED <<cache, everSet>>
          ELSE /\ cache' = CacheSet(weatherData, now, WeatherService_CACHE_TTL_MINUTES)
               /\ everSet' = TRUE
               /\ call' = [call EXCEPT ![c] =
                             Done(Resolve(weatherData), "fresh", call[c].t0, call[c].seen,
                                  AllFailed(res), Invoked(res), everSet)]
  /\ UNCHANGED <<query, conc, now, shared, newsVars, webVars, mailVars>>

----------------------------------------------------------------------------
(* SurfService, src/unnamed/part_008 *)

\* SURF_SPOTS, the number of spots of each island
SpotCount(island) ==
  CASE island = "oahu" -> 6
    [] island = "maui" -> 4
    [] island = "hawaii" -> 3
    [] island = "kauai" -> 3
    [] OTHER -> 0

\* TIDE_STATIONS
TIDE_STATIONS == {"oahu", "maui", "hawaii", "kauai", "molokai", "lanai"}

\* the fetchTideData call, beside the spots 1..SpotCount(island)
Tide == 0

\* a SurfSpot: parseSurflineData's record of the model's Surfline answer (surf.max
\* 5 with swells, which assessWaveQuality rates good), or getFallbackSpotData's
\* record (waveHeight.max 4, quality fair)
SurfSpot(i, kind) ==
  [spot |-> i, kind |-> kind,
   quality |-> IF kind = "parsed" THEN "good" ELSE "fair",
   max |-> IF kind = "parsed" THEN 5 ELSE 4]

\* getFallbackSpotData
getFallbackSpotData(i) == SurfSpot(i, "fallback")

\* fetchSpotData: the parsed forecast, or in the catch the spot's fallback data
fetchSpotData(i, up) == IF up = "ok" THEN SurfSpot(i, "parsed") ELSE getFallbackSpotData(i)

\* getFallbackTideData (its heights are random)
getFallbackTideData == "fallback"

\* fetchTideData: [] without station; the parsed predictions; the fallback tides in
\* the catch and when the payload has no predictions
fetchTideData(island, up) ==
  IF island \notin TIDE_STATIONS THEN "none"
  ELSE IF up = "ok" THEN "parsed" ELSE getFallbackTideData

SurfData(spots, tides, t) == [spots |-> spots, tides |-> tides, lastUpdated |-> t]

\* getFallbackSurfData
getFallbackSurfData(island, t) ==
  SurfData([i \in 1..SpotCount(island) |-> getFallbackSpotData(i)], getFallbackTideData, t)

\* mutant of SurfTryThrows: getSurfData throws when a spot or tide call failed
SurfTryThrowsOnFailure(res) == \E a \in DOMAIN res : res[a].up # "ok"

\* Whether the try block of getSurfData (lines 99-124) throws: fetchSpotData and
\* fetchTideData catch every error
SurfTryThrows(res) == FALSE

\* getSurfData, lines 125-128: the catch block
getSurfDataCatch(island, t) == Resolve(getFallbackSurfData(island, t))

\* getSurfData up to its first await: the cache check (lines 91-97), then
\* fetchSpotData starts for every spot of the island (lines 101-105)
GetSurfData(c) ==
  /\ query.svc = "surf"
  /\ call[c].pc = "idle"
  /\ conc \/ c = 1
  /\ IF InlineFresh(cache, now, TtlMs("surf"))
       THEN call' = [call EXCEPT ![c] = Done(Resolve(cache.data), "hit", now, cache, FALSE, 0, everSet)]
       ELSE call' = [call EXCEPT ![c] =
                       InFanout("fanout",
                                [a \in 0..SpotCount(query.island) |->
                                   IF a = Tide THEN NotCalled ELSE Pending],
                                now, cache)]
  /\ shared' = IF InlineFresh(cache, now, TtlMs("surf")) THEN shared \cup {c} ELSE shared
  /\ UNCHANGED <<query, conc, now, cache, everSet, newsVars, webVars, mailVars>>

\* mutant of FetchSpotDataSettles: fetchSpotData lets the error through
FetchSpotDataRejects(c, i) ==
  /\ query.svc = "surf"
  /\ call[c].pc = "fanout"
  /\ i \in DOMAIN call[c].res
  /\ i # Tide
  /\ call[c].res[i].st = "pending"
  /\ \E up \in {"ok", "fail"} :
       call' = [call EXCEPT ![c].res[i] =
                  IF up = "ok" THEN Fulfilled(up, <<fetchSpotData(i, up)>>) ELSE Rejected(up)]
  /\ UNCHANGED <<query, conc, now, cache, everSet, shared, newsVars, webVars, mailVars>>

\* one fetchSpotData promise settles (lines 131-153)
FetchSpotDataSettles(c, i) ==
  /\ query.svc = "surf"
  /\ call[c].pc = "fanout"
  /\ i \in DOMAIN call[c].res
  /\ i # Tide
  /\ call[c].res[i].st = "pending"
  /\ \E up \in {"ok", "fail"} :
       call' = [call EXCEPT ![c].res[i] = Fulfilled(up, <<fetchSpotData(i, up)>>)]
  /\ UNCHANGED <<query, conc, now, cache, everSet, shared, newsVars, webVars, mailVars>>

\* getSurfData after Promise.allSettled: line 113 starts fetchTideData
GetSurfDataFetchesTides(c) ==
  /\ query.svc = "surf"
  /\ call[c].pc = "fanout"
  /\ AllSettled(call[c].res)
  /\ call' = [call EXCEPT ![c].pc = "tide", ![c].res[Tide] = Pending]
  /\ UNCHANGED <<query, conc, now, cache, everSet, shared, newsVars, webVars, mailVars>>

\* the fetchTideData promise settles (lines 229-255)
FetchTideDataSettles(c) ==
  /\ query.svc = "surf"
  /\ call[c].pc = "tide"
  /\ call[c].res[Tide].st = "pending"
  /\ \E up \in {"ok", "fail", "bad"} :
       call' = [call EXCEPT ![c].res[Tide] = Fulfilled(up, <<>>)]
  /\ UNCHANGED <<query, conc, now, cache, everSet, shared, newsVars, webVars, mailVars>>

\* getSurfData after await fetchTideData: lines 108-128
GetSurfDataResumes(c) ==
  /\ query.svc = "surf"
  /\ call[c].pc = "tide"
  /\ AllSettled(call[c].res)
  /\ LET res == call[c].res
         spots == [i \in 1..SpotCount(query.island) |-> res[i].recs[1]]
         surfData == SurfData(spots, fetchTideData(query.island, res[Tide].up), now)
       IN IF SurfTryThrows(res)
            THEN /\ call' = [call EXCEPT ![c] =
                               Done(getSurfDataCatch(query.island, now), "catch", call[c].t0,
                                    call[c].seen, AllFailed(res), Invoked(res), everSet)]
                 /\ UNCHANGED <<cache, everSet, shared>>
            ELSE /\ cache' = Entry(surfData, now)
                 /\ everSet' = TRUE
                 /\ shared' = {c}
                 /\ call' = [call EXCEPT ![c] =
                               Done(Resolve(surfData), "fresh", call[c].t0, call[c].seen,
                                    AllFailed(res), Invoked(res), everSet)]
  /\ UNCHANGED <<query, conc, now, newsVars, webVars, mailVars>>

----------------------------------------------------------------------------
(* The environment *)

\* getTopSurfSpots, lines 286-299: qualityScore plus waveHeight.max
qualityScore(quality) ==
  CASE quality = "excellent" -> 4
    [] quality = "good" -> 3
    [] quality = "fair" -> 2
    [] OTHER -> 1
SpotScore(s) == qualityScore(s.quality) + s.max

\* Array.prototype.sort with the comparator scoreB - scoreA: descending by score,
\* stable
RECURSIVE InsertSpot(_, _)
InsertSpot(s, sorted) ==
  IF sorted = <<>> THEN <<s>>
  ELSE IF SpotScore(Head(sorted)) >= SpotScore(s) THEN <<Head(sorted)>> \o InsertSpot(s, Tail(sorted))
  ELSE <<s>> \o sorted

RECURSIVE SortSpots(_)
SortSpots(spots) ==
  IF spots = <<>> THEN <<>>
  ELSE InsertSpot(spots[Len(spots)], SortSpots(SubSeq(spots, 1, Len(spots) - 1)))

\* getTopSurfSpots after its await (lines 281-301), the getSurfData call being the
\* one it made: with an island, allSpots is surfData.spots itself and sort orders
\* that array in place, which is the array of the cache entry when surfData is the
\* entry's object; without island, flatMap builds a new array.  Then the caller
\* takes the slice.
GetTopSurfSpotsResumes(c, withIsland) ==
  /\ query.svc = "surf"
  /\ call[c].pc = "done"
  /\ call' = [call EXCEPT ![c] = Idle]
  /\ cache' = IF withIsland /\ c \in shared /\ cache.present
                THEN [cache EXCEPT !.data.spots = SortSpots(@)]
                ELSE cache
  /\ shared' = shared \ {c}
  /\ UNCHANGED <<query, conc, now, everSet, newsVars, webVars, mailVars>>

\* the caller takes the settled promise's value
Return(c) ==
  /\ call[c].pc = "done"
  /\ call' = [call EXCEPT ![c] = Idle]
  /\ shared' = shared \ {c}
  /\ UNCHANGED <<query, conc, now, cache, everSet, newsVars, webVars, mailVars>>

\* the clock: one millisecond passes
TickMs ==
  /\ ~conc
  /\ now % (TtlMs(query.svc) - 1) < MaxSlack
  /\ now' = now + 1
  /\ UNCHANGED <<query, conc, cache, call, everSet, shared, newsVars, webVars, mailVars>>

\* the clock: one millisecond less than the service's ttl passes
TickTtl ==
  /\ ~conc
  /\ now + (TtlMs(query.svc) - 1) <= MaxWindows * (TtlMs(query.svc) - 1) + MaxSlack
  /\ now' = now + (TtlMs(query.svc) - 1)
  /\ UNCHANGED <<query, conc, cache, call, everSet, shared, newsVars, webVars, mailVars>>

\* clearCache of EventsService, NewsService and SurfService: this.cache.clear()
clearCache ==
  /\ query.svc \in {"events", "news", "surf"}
  /\ cache' = NoEntry
  /\ shared' = {}
  /\ preClear' = IF query.svc = "news" /\ ~conc THEN {c \in Callers : call[c].pc = "fanout"}
                 ELSE preClear
  /\ staleEntry' = FALSE
  /\ UNCHANGED <<query, conc, now, call, everSet, feeds, webVars, mailVars>>

\* the feeds toggleFeed is called for
ToggledFeeds == {Len(RSS_FEEDS)}

\* toggleFeed of NewsService, lines 411-417, for the url of a feed of RSS_FEEDS: the
\* flag is set and the cache cleared (followed in the behaviours with one caller)
toggleFeed(f, enabled) ==
  /\ query.svc = "news"
  /\ ~conc
  /\ feeds' = [feeds EXCEPT ![f] = enabled]
  /\ cache' = NoEntry
  /\ preClear' = {c \in Callers : call[c].pc = "fanout"}
  /\ staleEntry' = FALSE
  /\ UNCHANGED <<query, conc, now, call, everSet, shared, webVars, mailVars>>

----------------------------------------------------------------------------
(* The middleware, src/unnamed/part_001, and the rate limiter of the newsletter
   route, src/src/app/api/newsletter/route.ts.  Each keeps its own rateLimitMap;
   a behaviour follows one of the two (query.svc is "middleware" or "newsletter") *)

\* A pathname: its segments and the extension of the last one
Pathname(segs, ext) == [segs |-> segs, ext |-> ext]

\* the paths requested: /api/newsletter, / and /logo.png
Pathnames ==
  { Pathname(<<"api", "newsletter">>, ""), Pathname(<<>>, ""), Pathname(<<"logo">>, "png") }

Ips == {"10.0.0.1", "10.0.0.2"}

UserAgents == {"Mozilla/5.0", "Googlebot/2.1"}

\* String.prototype.startsWith, segment by segment
startsWith(pathname, path) ==
  /\ Len(path) <= Len(pathname.segs)
  /\ SubSeq(pathname.segs, 1, Len(path)) = path

\* A Map: has/get/set over a function whose domain is the keys present
EmptyMap == [k \in {} |-> 0]
MapSet(map, key, value) == [k \in DOMAIN map \cup {key} |-> IF k = key THEN value ELSE map[k]]

\* RATE_LIMITS, in the order of Object.entries, and its default entry
RATE_LIMITS ==
  << [path |-> <<"api", "newsletter">>, requests |-> 5, windowMs |-> 60000],
     [path |-> <<"api", "weather">>, requests |-> 100, windowMs |-> 60000],
     [path |-> <<"api", "surf">>, requests |-> 100, windowMs |-> 60000],
     [path |-> <<"api", "news">>, requests |-> 50, windowMs |-> 60000],
     [path |-> <<"api", "events">>, requests |-> 50, windowMs |-> 60000],
     [path |-> <<"api", "cron">>, requests |-> 10, windowMs |-> 60000] >>

RATE_LIMITS_default == [path |-> <<>>, requests |-> 200, windowMs |-> 60000]

\* checkRateLimit, lines 124-131: the first entry whose path the pathname starts with
RECURSIVE RateLimitConfig(_, _)
RateLimitConfig(entries, pathname) ==
  IF entries = <<>> THEN RATE_LIMITS_default
  ELSE IF startsWith(pathname, Head(entries).path) THEN Head(entries)
  ELSE RateLimitConfig(Tail(entries), pathname)

Max(a, b) == IF a > b THEN a ELSE b

\* mutant of checkRateLimit: a request is allowed while count <= requests
checkRateLimitInclusive(map, ip, pathname, t) ==
  LET config == RateLimitConfig(RATE_LIMITS, pathname)
      key == <<ip, pathname>>
  IN IF key \notin DOMAIN map \/ t > map[key].resetTime
       THEN [allowed |-> TRUE, limit |-> config.requests, remaining |-> config.requests - 1,
             resetTime |-> t + config.windowMs,
             map |-> MapSet(map, key, [count |-> 1, resetTime |-> t + config.windowMs])]
       ELSE LET rateLimitData == map[key]
                allowed == rateLimitData.count <= config.requests
            IN [allowed |-> allowed, limit |-> config.requests,
                remaining |-> Max(0, config.requests - rateLimitData.count),
                resetTime |-> rateLimitData.resetTime,
                map |-> IF allowed
                          THEN MapSet(map, key, [rateLimitData EXCEPT !.count = @ + 1])
                          ELSE map]

\* checkRateLimit of the middleware, lines 121-162, on the rateLimitMap `map' at
\* time t: what it returns and, in the field map, the rateLimitMap it leaves
checkRateLimit(map, ip, pathname, t) ==
  LET config == RateLimitConfig(RATE_LIMITS, pathname)
      key == <<ip, pathname>>
  IN IF key \notin DOMAIN map \/ t > map[key].resetTime
       THEN [allowed |-> TRUE, limit |-> config.requests, remaining |-> config.requests - 1,
             resetTime |-> t + config.windowMs,
             map |-> MapSet(map, key, [count |-> 1, resetTime |-> t + config.windowMs])]
       ELSE LET rateLimitData == map[key]
                allowed == rateLimitData.count < config.requests
            IN [allowed |-> allowed, limit |-> config.requests,
                remaining |-> Max(0, config.requests - rateLimitData.count),
                resetTime |-> rateLimitData.resetTime,
                map |-> IF allowed
                          THEN MapSet(map, key, [rateLimitData EXCEPT !.count = @ + 1])
                          ELSE map]

\* checkRateLimit of the newsletter route, lines 8-24
routeCheckRateLimit(map, ip, maxRequests, windowMs, t) ==
  IF ip \notin DOMAIN map \/ t > map[ip].resetTime
    THEN [allowed |-> TRUE, map |-> MapSet(map, ip, [count |-> 1, resetTime |-> t + windowMs])]
  ELSE IF map[ip].count >= maxRequests THEN [allowed |-> FALSE, map |-> map]
  ELSE [allowed |-> TRUE, map |-> MapSet(map, ip, [map[ip] EXCEPT !.count = @ + 1])]

\* A response: who returned it, for which key, its status (200 for
\* NextResponse.next()), the names of its headers and the value of
\* X-RateLimit-Remaining when it has that header (0 otherwise)
Response(by, key, status, headers, remaining) ==
  [by |-> by, key |-> key, status |-> status, headers |-> headers, remaining |-> remaining]

SecurityHeaders ==
  { "X-Content-Type-Options", "X-Frame-Options", "X-XSS-Protection", "Referrer-Policy",
    "Permissions-Policy", "Content-Security-Policy" }

RateLimitHeaders == {"X-RateLimit-Limit", "X-RateLimit-Remaining", "X-RateLimit-Reset"}

\* the cache and CORS headers of an API response, lines 288-319
ApiHeaders ==
  { "Cache-Control", "Access-Control-Allow-Methods", "Access-Control-Allow-Headers",
    "Access-Control-Max-Age" }

\* addSecurityHeaders (outside production: no Strict-Transport-Security)
addSecurityHeaders(resp) == [resp EXCEPT !.headers = @ \cup SecurityHeaders]

\* isStaticAsset
isStaticAsset(pathname) ==
  \/ pathname.segs # <<>> /\ Head(pathname.segs) \in {"_next", "favicon", "apple-touch-icon", "manifest"}
  \/ pathname.ext \in {"ico", "png", "jpg", "jpeg", "svg", "css", "js", "woff", "woff2", "ttf"}

\* isBotRequest: the user agent matches one of the bot patterns
isBotRequest(userAgent) == userAgent \in {"Googlebot/2.1", "bingbot/2.0", "Twitterbot/1.0"}

\* history: a request for `key' was allowed or blocked at time t.  The window of a
\* key starts with its first request and with the first request that arrives
\* more than windowMs after the window's start
Observe(w, key, allowed, windowMs, t) ==
  IF key \notin DOMAIN w \/ t > w[key].start + windowMs
    THEN MapSet(w, key, [start |-> t, allowed |-> IF allowed THEN 1 ELSE 0])
    ELSE MapSet(w, key, [w[key] EXCEPT !.allowed = @ + (IF allowed THEN 1 ELSE 0)])

\* middleware, lines 236-325
middleware(ip, pathname, userAgent) ==
  /\ query.svc = "middleware"
  /\ LET key == <<ip, pathname>>
         next == Response("middleware", key, 200, {}, 0)
         secured == addSecurityHeaders(next)
         rateLimit == checkRateLimit(rateLimitMap, ip, pathname, now)
     IN IF isStaticAsset(pathname)
          THEN response' = next /\ UNCHANGED <<rateLimitMap, window>>
        ELSE IF isBotRequest(userAgent)
          THEN response' = secured /\ UNCHANGED <<rateLimitMap, window>>
        ELSE IF startsWith(pathname, <<"api">>)
          THEN /\ rateLimitMap' = rateLimit.map
               /\ window' = Observe(window, key, rateLimit.allowed,
                                    RateLimitConfig(RATE_LIMITS, pathname).windowMs, now)
               /\ response' =
                    IF ~rateLimit.allowed
                      THEN Response("middleware", key, 429,
                                    {"Content-Type", "Retry-After"} \cup RateLimitHeaders, 0)
                      ELSE [secured EXCEPT
                              !.headers = @ \cup RateLimitHeaders \cup ApiHeaders
                                            \cup {"X-Response-Time"},
                              !.remaining = rateLimit.remaining]
        ELSE /\ response' = [secured EXCEPT !.headers = @ \cup {"X-Response-Time"}]
             /\ UNCHANGED <<rateLimitMap, window>>
  /\ UNCHANGED <<now, serviceVars, routeRateLimitMap, mailVars>>

\* the request bodies followed: those the handler answers itself, without email
\* and with an island that is none (a valid body goes on to subscribeEmail)
Body(email, island) == [email |-> email, island |-> island]
RejectedBodies == {Body("", "oahu"), Body("kai@example.org", "niihau")}

\* POST of the newsletter route, lines 40-67, for a body of RejectedBodies
POST(ip, body) ==
  /\ query.svc = "newsletter"
  /\ body.email = "" \/ body.island \notin ISLAND_COORDINATES
  /\ LET rateLimit == routeCheckRateLimit(routeRateLimitMap, ip, 5, 60000, now)
     IN /\ routeRateLimitMap' = rateLimit.map
        /\ window' = Observe(window, ip, rateLimit.allowed, 60000, now)
        /\ response' = Response("POST", ip, IF rateLimit.allowed THEN 400 ELSE 429, {}, 0)
  /\ UNCHANGED <<now, serviceVars, rateLimitMap, mailVars>>

\* the window of the limiters followed: windowMs of every entry of RATE_LIMITS
\* and of the route
WindowMs == 60000

\* the clock: one millisecond passes
LimitTickMs ==
  /\ now % WindowMs < MaxSlack
  /\ now' = now + 1
  /\ UNCHANGED <<serviceVars, webVars, mailVars>>

\* the clock: a window's length passes
LimitTickWindow ==
  /\ now + WindowMs <= MaxWindows * WindowMs + MaxSlack
  /\ now' = now + WindowMs
  /\ UNCHANGED <<serviceVars, webVars, mailVars>>

\* no request has been made
NoRequestYet ==
  /\ rateLimitMap = EmptyMap
  /\ routeRateLimitMap = EmptyMap
  /\ response = Response("none", "", 200, {}, 0)
  /\ window = EmptyMap

----------------------------------------------------------------------------
(* EmailService, src/src/services/emailservice.ts *)

MailCallers == {1, 2}

\* an email address: its local part and the labels of its domain
Email(local, domain) == [local |-> local, domain |-> domain]

\* isValidEmail, /^[^\s@]+@[^\s@]+\.[^\s@]+$/
isValidEmail(email) ==
  /\ email.local # ""
  /\ Len(email.domain) >= 2
  /\ \A i \in 1..Len(email.domain) : email.domain[i] # ""

\* the addresses followed: two valid ones and one without a dot after the @
Emails ==
  { Email("kai", <<"example", "org">>), Email("leilani", <<"example", "org">>),
    Email("kai", <<"localhost">>) }

ValidEmails == {email \in Emails : isValidEmail(email)}

MailIdle == [pc |-> "idle"]
NoResult == [op |-> "none"]
NotRunning == [pc |-> "idle"]

\* the EmailService after construction
NoSubscriberYet ==
  /\ subscribers = <<>>
  /\ nextId = 1
  /\ mcall = [c \in MailCallers |-> MailIdle]
  /\ returned = NoResult
  /\ lastOk = [email \in ValidEmails |-> "none"]
  /\ stored = {}
  /\ briefing = NotRunning

\* the ids and unsubscribe tokens generated in a behaviour: the n-th call of
\* generateSubscriberId and generateUnsubscribeToken returns n
MaxIds == 2

\* the islands subscribed to: two with surf spots and one without
SubscriberIslands == {"oahu", "maui", "molokai"}

\* the token unsubscribeEmail is called with: 0 for none
Tokens == 0..MaxIds

\* a NewsletterSubscriber as subscribeEmail builds it (lines 85-99)
Subscriber(id, email, island) ==
  [id |-> id, email |-> email, island |-> island, subscribed |-> TRUE, unsubscribeToken |-> id]

\* Map.get on the entries: the position of the email's record, 0 without one
IndexOf(subs, email) ==
  IF \E i \in 1..Len(subs) : subs[i].email = email
    THEN CHOOSE i \in 1..Len(subs) : subs[i].email = email
    ELSE 0

\* Map.set: a new key is appended, an existing key keeps its place
SetSubscriber(subs, subscriber) ==
  IF IndexOf(subs, subscriber.email) = 0 THEN Append(subs, subscriber)
  ELSE [subs EXCEPT ![IndexOf(subs, subscriber.email)] = subscriber]

Result(op, email, success, message) ==
  [op |-> op, email |-> email, success |-> success, message |-> message]

\* Whether sendWelcomeEmail (lines 494-520) throws: it builds a template and calls
\* sendEmailToSubscriber, which replaces a placeholder and logs
sendWelcomeEmailThrows == FALSE

\* subscribeEmail, lines 106-116: the record is stored, the welcome email sent and
\* the result returned (the catch turns an error of the welcome email into a failure)
StoreSubscriber(subscriber) ==
  /\ subscribers' = SetSubscriber(subscribers, subscriber)
  /\ stored' = stored \cup {subscriber.id}
  /\ returned' = IF sendWelcomeEmailThrows
                   THEN Result("subscribeEmail", subscriber.email, FALSE,
                               "Subscription failed. Please try again.")
                   ELSE Result("subscribeEmail", subscriber.email, TRUE,
                               "Successfully subscribed to daily Hawaii briefing")
  /\ lastOk' = IF sendWelcomeEmailThrows THEN lastOk
               ELSE [lastOk EXCEPT ![subscriber.email] = "subscribe"]

\* subscribeEmail, lines 64-104: up to the await of addToBeehiiv when Beehiiv is
\* configured, else to its return (nothing it awaits then does any I/O)
subscribeEmail(c, email, island) ==
  /\ mcall[c].pc = "idle"
  /\ beehiiv \/ c = 1
  /\ IF ~isValidEmail(email)
       THEN /\ returned' = Result("subscribeEmail", email, FALSE, "Invalid email address")
            /\ UNCHANGED <<subscribers, nextId, mcall, lastOk, stored>>
     ELSE IF IndexOf(subscribers, email) # 0
       THEN LET i == IndexOf(subscribers, email)
            IN IF subscribers[i].subscribed
                 THEN /\ returned' = Result("subscribeEmail", email, FALSE,
                                            "Email already subscribed")
                      /\ UNCHANGED <<subscribers, nextId, mcall, lastOk, stored>>
                 ELSE /\ subscribers' = [subscribers EXCEPT ![i].subscribed = TRUE]
                      /\ returned' = Result("subscribeEmail", email, TRUE,
                                            "Subscription reactivated")
                      /\ lastOk' = [lastOk EXCEPT ![email] = "subscribe"]
                      /\ UNCHANGED <<nextId, mcall, stored>>
     ELSE /\ nextId <= MaxIds
          /\ nextId' = nextId + 1
          /\ IF beehiiv
               THEN /\ mcall' = [mcall EXCEPT ![c] =
                                   [pc |-> "addToBeehiiv",
                                    subscriber |-> Subscriber(nextId, email, island)]]
                    /\ UNCHANGED <<subscribers, returned, lastOk, stored>>
               ELSE /\ StoreSubscriber(Subscriber(nextId, email, island))
                    /\ UNCHANGED mcall
  /\ UNCHANGED <<now, serviceVars, webVars, beehiiv, briefing>>

\* the fetch of addToBeehiiv settles (lines 456-479: an error is caught and
\* logged) and subscribeEmail goes on to store the record
AddToBeehiivSettles(c) ==
  /\ mcall[c].pc = "addToBeehiiv"
  /\ StoreSubscriber(mcall[c].subscriber)
  /\ mcall' = [mcall EXCEPT ![c] = MailIdle]
  /\ UNCHANGED <<now, serviceVars, webVars, beehiiv, nextId, briefing>>

\* mutant of unsubscribeEmail: the record is marked before the token is compared
unsubscribeEmailMarksFirst(email, token) ==
  /\ LET i == IndexOf(subscribers, email)
     IN IF i = 0
          THEN /\ returned' = Result("unsubscribeEmail", email, FALSE, "Email not found")
               /\ UNCHANGED <<subscribers, lastOk>>
          ELSE /\ subscribers' = [subscribers EXCEPT ![i].subscribed = FALSE]
               /\ IF token # 0 /\ token # subscribers[i].unsubscribeToken
                    THEN /\ returned' = Result("unsubscribeEmail", email, FALSE,
                                               "Invalid unsubscribe token")
                         /\ UNCHANGED lastOk
                    ELSE /\ returned' = Result("unsubscribeEmail", email, TRUE,
                                               "Successfully unsubscribed")
                         /\ lastOk' = [lastOk EXCEPT ![email] = "unsubscribe"]
  /\ UNCHANGED <<now, serviceVars, webVars, beehiiv, nextId, mcall, stored, briefing>>

\* unsubscribeEmail, lines 119-144 (removeFromBeehiiv does nothing)
unsubscribeEmail(email, token) ==
  /\ LET i == IndexOf(subscribers, email)
     IN IF i = 0
          THEN /\ returned' = Result("unsubscribeEmail", email, FALSE, "Email not found")
               /\ UNCHANGED <<subscribers, lastOk>>
        ELSE IF token # 0 /\ token # subscribers[i].unsubscribeToken
          THEN /\ returned' = Result("unsubscribeEmail", email, FALSE,
                                     "Invalid unsubscribe token")
               /\ UNCHANGED <<subscribers, lastOk>>
        ELSE /\ subscribers' = [subscribers EXCEPT ![i].subscribed = FALSE]
             /\ returned' = Result("unsubscribeEmail", email, TRUE, "Successfully unsubscribed")
             /\ lastOk' = [lastOk EXCEPT ![email] = "unsubscribe"]
  /\ UNCHANGED <<now, serviceVars, webVars, beehiiv, nextId, mcall, stored, briefing>>

\* getSubscriberCount
getSubscriberCount == Len(SelectSeq(subscribers, LAMBDA s : s.subscribed))

\* groupSubscribersByIsland: the groups in the order their islands first occur
RECURSIVE groupSubscribersByIsland(_, _)
groupSubscribersByIsland(subs, groups) ==
  IF subs = <<>> THEN groups
  ELSE LET s == Head(subs)
           known == \E k \in 1..Len(groups) : groups[k].island = s.island
           k == CHOOSE k \in 1..Len(groups) : groups[k].island = s.island
       IN groupSubscribersByIsland(
            Tail(subs),
            IF known THEN [groups EXCEPT ![k].subscribers = Append(@, s.email)]
            ELSE Append(groups, [island |-> s.island, subscribers |-> <<s.email>>]))

\* calculateSurfScore of EmailService
calculateSurfScore(spot) ==
  (CASE spot.quality = "excellent" -> 10
     [] spot.quality = "good" -> 7
     [] spot.quality = "fair" -> 4
     [] OTHER -> 1) + spot.max

\* undefined, as a spot
Undefined == [spot |-> 0, kind |-> "undefined", quality |-> "", max |-> 0]

\* Array.prototype.reduce of lines 214-218 from element i on: the callback keeps
\* best unless the spot scores higher
RECURSIVE ReduceSpots(_, _, _)
ReduceSpots(spots, i, best) ==
  IF i > Len(spots) THEN best
  ELSE ReduceSpots(spots, i + 1,
                   IF calculateSurfScore(spots[i]) > calculateSurfScore(best)
                     THEN spots[i] ELSE best)

\* generateBriefingData, when the four services resolve: getSurfData gives one
\* SurfSpot for each spot SURF_SPOTS has for the island; the initial value of
\* the reduce is spots[0], undefined for an island without spots
generateBriefingData(island) ==
  LET spots == [i \in 1..SpotCount(island) |-> fetchSpotData(i, "ok")]
  IN [island |-> island,
      topSurfSpot |-> ReduceSpots(spots, 1, IF Len(spots) = 0 THEN Undefined ELSE spots[1])]

\* Whether generateEmailTemplate throws: it reads data.topSurfSpot.name (line 314)
generateEmailTemplateThrows(data) == data.topSurfSpot = Undefined

\* mutant of SendToIsland: the catch counts no one
SendToIslandCatchCountsNone(data, group) ==
  IF generateEmailTemplateThrows(data)
    THEN [sent |-> 0, failed |-> 0, sentTo |-> {}]
    ELSE [sent |-> Len(group), failed |-> 0, sentTo |-> {group[i] : i \in 1..Len(group)}]

\* sendDailyBriefing, lines 168-187, for one island: the template, then
\* sendEmailToSubscriber for every subscriber of the group (it never rejects);
\* the catch counts the whole group as failed
SendToIsland(data, group) ==
  IF generateEmailTemplateThrows(data)
    THEN [sent |-> 0, failed |-> Len(group), sentTo |-> {}]
    ELSE [sent |-> Len(group), failed |-> 0, sentTo |-> {group[i] : i \in 1..Len(group)}]

\* the sendDailyBriefing call: where it is, the groups still to send, its counts
\* and, as history, the number of active subscribers and the inactive ones at its
\* start, the briefing data generated and the addresses sent to
Briefing(pc, groups, atStart, inactive) ==
  [pc |-> pc, groups |-> groups, sent |-> 0, failed |-> 0, atStart |-> atStart,
   inactive |-> inactive, generated |-> <<>>, sentTo |-> {}]

\* sendDailyBriefing, lines 147-164: the snapshot of the active subscribers
sendDailyBriefing ==
  /\ briefing.pc \in {"idle", "done"}
  /\ LET activeSubscribers == SelectSeq(subscribers, LAMBDA s : s.subscribed)
         inactive == {subscribers[i].email : i \in {j \in 1..Len(subscribers) : ~subscribers[j].subscribed}}
     IN briefing' =
          IF activeSubscribers = <<>> THEN Briefing("done", <<>>, 0, inactive)
          ELSE Briefing("loop", groupSubscribersByIsland(activeSubscribers, <<>>),
                        Len(activeSubscribers), inactive)
  /\ UNCHANGED <<now, serviceVars, webVars, beehiiv, subscribers, nextId, mcall, returned,
                 lastOk, stored>>

\* sendDailyBriefing, lines 167-191: one round of the loop over the islands, and
\* the return after the last
SendDailyBriefingNextIsland ==
  /\ briefing.pc = "loop"
  /\ LET group == Head(briefing.groups)
         briefingData == generateBriefingData(group.island)
         counts == SendToIsland(briefingData, group.subscribers)
     IN briefing' = [briefing EXCEPT
                       !.pc = IF Tail(briefing.groups) = <<>> THEN "done" ELSE "loop",
                       !.groups = Tail(@),
                       !.sent = @ + counts.sent,
                       !.failed = @ + counts.failed,
                       !.generated = Append(@, briefingData),
                       !.sentTo = @ \cup counts.sentTo]
  /\ UNCHANGED <<now, serviceVars, webVars, beehiiv, subscribers, nextId, mcall, returned,
                 lastOk, stored>>

----------------------------------------------------------------------------
(* The specification *)

Query(svc, island, category, daysAhead, limit) ==
  [svc |-> svc, island |-> island, category |-> category, daysAhead |-> daysAhead,
   limit |-> limit]

\* the calls followed: getLatestNews() with its defaults
\* and getEvents() with its defaults and as getFeaturedEvents calls it,
\* getWeatherData for an island and for a string that is none, getSurfData for an
\* island with three spots and for one without
Queries ==
  { Query("news", "", "", 0, 20),
    Query("events", "", "", 7, 50),
    Query("events", "", "", 14, 100),
    Query("weather", "oahu", "", 0, 0),
    Query("weather", "atlantis", "", 0, 0),
    Query("surf", "kauai", "", 0, 0),
    Query("surf", "molokai", "", 0, 0) }

Init ==
  /\ query \in Queries
  /\ conc \in BOOLEAN
  /\ now = 0
  /\ cache = NoEntry
  /\ call = [c \in Callers |-> Idle]
  /\ everSet = FALSE
  /\ shared = {}
  /\ feeds = [f \in FeedIds |-> TRUE]
  /\ preClear = {}
  /\ staleEntry = FALSE
  /\ NoRequestYet
  /\ beehiiv = FALSE
  /\ NoSubscriberYet

Next ==
  \/ \E c \in Callers : GetLatestNews(c)
  \/ \E c \in Callers, f \in FeedIds : FetchFeedSettles(c, f)
  \/ \E c \in Callers : GetLatestNewsResumes(c)
  \/ \E c \in Callers : GetEvents(c)
  \/ \E c \in Callers, s \in SourceIds : FetchFromSourceSettles(c, s)
  \/ \E c \in Callers : GetEventsResumes(c)
  \/ \E c \in Callers : GetWeatherData(c)
  \/ \E c \in Callers, a \in NoaaIds : FetchWithTimeoutSettles(c, a)
  \/ \E c \in Callers : FetchNOAAWeatherFansOut(c)
  \/ \E c \in Callers : GetWeatherDataResumes(c)
  \/ \E c \in Callers : GetSurfData(c)
  \/ \E c \in Callers, i \in 1..SpotCount(query.island) : FetchSpotDataSettles(c, i)
  \/ \E c \in Callers : GetSurfDataFetchesTides(c)
  \/ \E c \in Callers : FetchTideDataSettles(c)
  \/ \E c \in Callers : GetSurfDataResumes(c)
  \/ \E c \in Callers, withIsland \in BOOLEAN : GetTopSurfSpotsResumes(c, withIsland)
  \/ \E c \in Callers : Return(c)
  \/ TickMs
  \/ TickTtl
  \/ clearCache
  \/ \E f \in ToggledFeeds, enabled \in BOOLEAN : toggleFeed(f, enabled)

Spec == Init /\ [][Next]_vars

\* The steps of caller c's call that are bound to happen: the continuations of the
\* async functions (the event loop runs every ready continuation), the scrapers,
\* which answer from local mock data, and fetchWithTimeout, whose AbortController
\* timer rejects the request after timeoutMs.  The fetch calls of
\* fetchEventbriteEvents, fetchSpotData and fetchTideData and the parseURL call of
\* fetchFeed are given no timeout by the code: whether they ever settle is up to
\* the upstream.
Progress(c) ==
  \/ GetLatestNewsResumes(c)
  \/ GetEventsResumes(c)
  \/ \E s \in SourceIds : EVENT_SOURCES[s].type = "scraper" /\ FetchFromSourceSettles(c, s)
  \/ \E a \in NoaaIds : FetchWithTimeoutSettles(c, a)
  \/ FetchNOAAWeatherFansOut(c)
  \/ GetWeatherDataResumes(c)
  \/ GetSurfDataFetchesTides(c)
  \/ GetSurfDataResumes(c)

FairSpec == Init /\ [][Next]_vars /\ \A c \in Callers : WF_vars(Progress(c))

\* The rate limiters: a behaviour follows the middleware or the newsletter route,
\* with the data services at rest
LimitQueries == {Query("middleware", "", "", 0, 0), Query("newsletter", "", "", 0, 0)}

ServicesAtRest ==
  /\ conc = FALSE
  /\ now = 0
  /\ cache = NoEntry
  /\ call = [c \in Callers |-> Idle]
  /\ everSet = FALSE
  /\ shared = {}
  /\ feeds = [f \in FeedIds |-> TRUE]
  /\ preClear = {}
  /\ staleEntry = FALSE

LimitInit ==
  /\ query \in LimitQueries
  /\ ServicesAtRest
  /\ NoRequestYet
  /\ beehiiv = FALSE
  /\ NoSubscriberYet

LimitNext ==
  \/ \E ip \in Ips, pathname \in Pathnames, userAgent \in UserAgents :
       middleware(ip, pathname, userAgent)
  \/ \E ip \in Ips, body \in RejectedBodies : POST(ip, body)
  \/ LimitTickMs
  \/ LimitTickWindow

LimitSpec == LimitInit /\ [][LimitNext]_vars

\* A behaviour of EmailService: the data services and the limiters at rest,
\* Beehiiv configured or not
MailQueries == {Query("email", "", "", 0, 0)}

MailInit ==
  /\ query \in MailQueries
  /\ ServicesAtRest
  /\ NoRequestYet
  /\ beehiiv \in BOOLEAN
  /\ NoSubscriberYet

MailNext ==
  \/ \E c \in MailCallers, email \in Emails, island \in SubscriberIslands :
       subscribeEmail(c, email, island)
  \/ \E c \in MailCallers : AddToBeehiivSettles(c)
  \/ \E email \in Emails, token \in Tokens : unsubscribeEmail(email, token)
  \/ sendDailyBriefing
  \/ SendDailyBriefingNextIsland

MailSpec == MailInit /\ [][MailNext]_vars

----------------------------------------------------------------------------
(* Properties *)

InFlight(c) == call[c].pc \in {"points", "fanout", "tide"}
IsHit(c) == call[c].pc = "done" /\ call[c].path = "hit"
\* the age, at the call's cache check, of the entry the check read
SeenAge(c) == call[c].t0 - call[c].seen.timestamp

\* the upstream calls of one full fan-out of the service
FullFanout ==
  CASE query.svc = "news" -> Cardinality({f \in FeedIds : feeds[f]})
    [] query.svc = "events" -> Cardinality({s \in SourceIds : EVENT_SOURCES[s].enabled})
    [] query.svc = "weather" -> Cardinality(NoaaIds)
    [] query.svc = "surf" -> SpotCount(query.island) + 1

IsStaticDefault(v) ==
  CASE query.svc = "news" -> v # <<>> /\ v = getFallbackNews(v[1].publishedAt)
    [] query.svc = "events" -> v = getFallbackEvents(query.island)
    [] query.svc = "weather" -> v = getFallbackWeatherData(v.lastUpdated)
    [] query.svc = "surf" -> v = getFallbackSurfData(query.island, v.lastUpdated)

\* C2 as stated: a call that read an expired entry and whose every upstream source
\* failed returns that stale value.
C2_StalePreferredOverEmpty ==
  \A c \in Callers :
    (/\ call[c].pc = "done"
     /\ call[c].invoked > 0
     /\ call[c].allFailed
     /\ call[c].seen.present
     /\ SeenAge(c) >= TtlMs(query.svc))
    => (~call[c].rejected /\ call[c].ret = call[c].seen.data)

\* C3 as stated: a call whose every upstream source failed, with no entry ever
\* stored for the key, returns the static default and does not throw.
C3_FallbackChain ==
  \A c \in Callers :
    (/\ call[c].pc = "done"
     /\ call[c].invoked > 0
     /\ call[c].allFailed
     /\ ~call[c].prior)
    => (~call[c].rejected /\ IsStaticDefault(call[c].ret))

\* C4: every call of getWeatherData, getEvents, getLatestNews and getSurfData
\* resolves to a value; none rejects.
C4_NeverRejects == \A c \in Callers : call[c].pc = "done" => ~call[c].rejected

\* a call that returned from its catch block after its upstream calls failed
C4_Witness ==
  \E c \in Callers : /\ call[c].pc = "done"
                     /\ call[c].path = "catch"
                     /\ call[c].invoked > 0
                     /\ ~call[c].rejected

C6_TtlBoundary ==
  \A c \in Callers :
    (call[c].pc # "idle" /\ call[c].seen.present) =>
      /\ SeenAge(c) = TtlMs(query.svc) - 1 => (IsHit(c) /\ call[c].ret = call[c].seen.data)
      /\ SeenAge(c) = TtlMs(query.svc) + 1 => (~IsHit(c) /\ (InFlight(c) \/ call[c].invoked > 0))

\* a call that is fanning out because it read the entry one millisecond after its ttl
C6_Witness ==
  \E c \in Callers : /\ InFlight(c)
                     /\ call[c].seen.present
                     /\ SeenAge(c) = TtlMs(query.svc) + 1

\* a call that was served the entry one millisecond before its ttl
C6_WitnessBefore ==
  \E c \in Callers : /\ IsHit(c)
                     /\ SeenAge(c) = TtlMs(query.svc) - 1

C7_WitnessRetained ==
  \E c \in Callers : /\ query.svc # "weather"
                     /\ call[c].pc = "fanout"
                     /\ call[c].seen.present
                     /\ cache = call[c].seen

\* C8: a call that finds a fresh entry returns exactly the cached value, invokes no
\* upstream adapter and leaves the cache unchanged.
C8_HitShortCircuits ==
  [][\A c \in Callers :
       (/\ call[c].pc = "idle"
        /\ call'[c].pc # "idle"
        /\ cache.present
        /\ now - cache.timestamp < TtlMs(query.svc))
       => (/\ call'[c].pc = "done"
           /\ ~call'[c].rejected
           /\ call'[c].ret = cache.data
           /\ call'[c].invoked = 0
           /\ cache' = cache)]_vars

\* a call served from a fresh entry
C8_Witness ==
  \E c \in Callers : /\ IsHit(c)
                     /\ SeenAge(c) < TtlMs(query.svc)
                     /\ call[c].ret = call[c].seen.data
                     /\ cache = call[c].seen

\* C9 as stated: getEvents and getLatestNews never write an empty merged result to
\* the cache.
C9_CacheNeverEmpty ==
  (query.svc \in {"events", "news"} /\ cache.present) => cache.data # <<>>

\* the merged list of a call whose adapters have all settled, and a record's identity
MergedOf(c) ==
  IF query.svc = "news" THEN fetchAllFeeds(call[c].res) ELSE fetchFromAllSources(call[c].res)
IdentityKey(r) == IF query.svc = "news" THEN r.originalUrl ELSE EventKey(r)
HasKey(recs, k) == \E i \in 1..Len(recs) : IdentityKey(recs[i]) = k

\* C10: the merged list holds at most one record per identity key, every key some
\* adapter returned is in it, and the record kept for a key is the one of the first
\* adapter, in configured order, that returned the key, whatever the order in
\* which the adapters settled.
C10_DedupCorrect ==
  \A c \in Callers :
    (query.svc \in {"news", "events"} /\ call[c].pc = "fanout" /\ AllSettled(call[c].res)) =>
      LET merged == MergedOf(c)
          res == call[c].res
      IN /\ \A i, j \in 1..Len(merged) :
              i # j => IdentityKey(merged[i]) # IdentityKey(merged[j])
         /\ \A a \in DOMAIN res : \A k \in 1..Len(res[a].recs) :
              /\ HasKey(merged, IdentityKey(res[a].recs[k]))
              /\ \A i \in 1..Len(merged) :
                   IdentityKey(merged[i]) = IdentityKey(res[a].recs[k]) => merged[i].src <= a

\* two adapters have returned records with the same identity key
C10_Witness ==
  \E c \in Callers :
    /\ query.svc \in {"news", "events"}
    /\ call[c].pc = "fanout"
    /\ AllSettled(call[c].res)
    /\ \E a, b \in DOMAIN call[c].res :
         /\ a < b
         /\ \E k \in 1..Len(call[c].res[a].recs) :
              HasKey(call[c].res[b].recs, IdentityKey(call[c].res[a].recs[k]))

Range(s) == {s[i] : i \in 1..Len(s)}

\* C11: when some adapters fail and others succeed, the merged list holds exactly
\* the records of the successful adapters, one per identity key (with one
\* successful adapter returning distinct records: exactly its records), and the
\* call returns normally.
C11_PartialSuccessMerge ==
  \A c \in Callers :
    query.svc \in {"news", "events"} =>
      /\ (call[c].pc = "fanout" /\ \A a \in DOMAIN call[c].res : call[c].res[a].st # "pending") =>
           LET res == call[c].res
               merged == MergedOf(c)
               ok == {a \in DOMAIN res : res[a].up = "ok"}
           IN /\ \A i \in 1..Len(merged) : \E a \in ok : merged[i] \in Range(res[a].recs)
              /\ \A a \in ok : \A k \in 1..Len(res[a].recs) :
                   HasKey(merged, IdentityKey(res[a].recs[k]))
              /\ \A i, j \in 1..Len(merged) :
                   i # j => IdentityKey(merged[i]) # IdentityKey(merged[j])
              /\ \A a \in ok :
                   (/\ \A b \in ok : res[b].recs # <<>> => b = a
                    /\ \A i, j \in 1..Len(res[a].recs) :
                         i # j => IdentityKey(res[a].recs[i]) # IdentityKey(res[a].recs[j]))
                   => merged = res[a].recs
      /\ (call[c].pc = "done" /\ call[c].invoked > 0 /\ ~call[c].allFailed) =>
           (~call[c].rejected /\ call[c].path = "fresh")

\* three feeds have settled: one succeeded with two distinct articles, two failed,
\* and the merged list is those two articles
C11_Witness ==
  \E c \in Callers :
    /\ query.svc = "news"
    /\ call[c].pc = "fanout"
    /\ AllSettled(call[c].res)
    /\ \E a \in FeedIds :
         /\ call[c].res[a].up = "ok"
         /\ Len(call[c].res[a].recs) = 2
         /\ \A b \in FeedIds \ {a} : call[c].res[b].up = "fail"
         /\ MergedOf(c) = call[c].res[a].recs
    /\ Cardinality({b \in FeedIds : call[c].res[b].up = "fail"}) = 2

\* the score and the date of a returned record: relevanceScore and publishedAt of an
\* article, calculateEventScore and startDate of an event
ScoreOf(r, t) == IF query.svc = "news" THEN r.relevanceScore ELSE calculateEventScore(r, t)
DateOf(r) == IF query.svc = "news" THEN r.publishedAt ELSE r.startDate

C12_WitnessEvents ==
  \E c \in Callers :
    /\ query.svc = "events"
    /\ call[c].pc = "done"
    /\ Len(call[c].ret) = 2
    /\ call[c].ret[1].startDate < call[c].ret[2].startDate
    /\ calculateEventScore(call[c].ret[1], call[c].t0)
         < calculateEventScore(call[c].ret[2], call[c].t0)

\* the adapters' outputs alone, without the order in which they arrived
Strip(res) == [a \in DOMAIN res |-> [res[a] EXCEPT !.seq = 0]]

\* the merge, dedup, filter, sort, slice pipeline of the query, run at time t on
\* the adapters' outputs
PipelineOut(res, t) ==
  IF query.svc = "news"
    THEN NewsPipeline(fetchAllFeeds(res), query.category, query.limit)
    ELSE Slice(EventsSort(filterEvents(fetchFromAllSources(res), query.island,
                                       query.category, t)), query.limit)

\* C13 as stated: the list a cycle returns is a function of the adapters' outputs
\* alone: the same whatever order the adapter calls completed in and whatever the
\* time the pipeline runs at (here: the time the call was made instead of the time
\* it resumed).
C13_Deterministic ==
  [][\A c \in Callers :
       (query.svc \in {"news", "events"} /\ call[c].pc = "fanout" /\ call'[c].pc = "done")
       => /\ ~call'[c].rejected
          /\ call'[c].ret = PipelineOut(Strip(call[c].res), now)
          /\ call'[c].ret = PipelineOut(Strip(call[c].res), call[c].t0)]_vars

\* C13 amended: the list a cycle returns is a function of the adapters' outputs and,
\* for getEvents, of the time the pipeline runs at (filterEvents drops the events
\* that started before that time); it does not depend on the order in which the
\* adapter calls completed, and for getLatestNews not on the time either.
C13_DeterministicGivenTime ==
  [][\A c \in Callers :
       (query.svc \in {"news", "events"} /\ call[c].pc = "fanout" /\ call'[c].pc = "done")
       => /\ ~call'[c].rejected
          /\ call'[c].ret = PipelineOut(Strip(call[c].res), now)
          /\ query.svc = "news" => call'[c].ret = PipelineOut(Strip(call[c].res), call[c].t0)]_vars

\* two overlapping getEvents calls: one has returned two events, the other holds the
\* same outputs, its first source having settled last, and is about to return
C13_Witness ==
  \E c, d \in Callers :
    /\ query.svc = "events"
    /\ call[c].pc = "done"
    /\ call[c].path = "fresh"
    /\ Len(call[c].ret) = 2
    /\ call[d].pc = "fanout"
    /\ AllSettled(call[d].res)
    /\ call[d].res[1].seq = 3
    /\ PipelineOut(call[d].res, now) = call[c].ret

\* a getEvents call resumed after an event of its sources' output had started
C13_WitnessTime ==
  \E c \in Callers :
    /\ query.svc = "events"
    /\ call[c].pc = "done"
    /\ call[c].path = "fresh"
    /\ call[c].t0 < now
    /\ Len(call[c].ret) = 1
    /\ call[c].ret[1].src = 1

\* a step of getTopSurfSpots that reorders the stored spots in place: no cache.set
InPlaceSort ==
  /\ query.svc = "surf"
  /\ cache.present
  /\ cache' = [cache EXCEPT !.data.spots = SortSpots(@)]

\* C14: a cycle's result is produced, cached and returned only when no adapter
\* call the cycle started is still pending: every step by which a call in its
\* fan-out returns, and every cache write (every step that gives the entry a new
\* value, the in-place sort of getTopSurfSpots apart), starts in a state where all
\* the call's adapter promises have settled.
C14_FanOutThenJoin ==
  [][/\ \A c \in Callers :
          (InFlight(c) /\ call'[c].pc = "done")
          => \A a \in DOMAIN call[c].res : call[c].res[a].st # "pending"
     /\ (cache'.present /\ cache' # cache /\ ~InPlaceSort)
          => \E c \in Callers :
               /\ InFlight(c)
               /\ call'[c].pc = "done"
               /\ cache'.data = call'[c].ret
               /\ \A a \in DOMAIN call[c].res : call[c].res[a].st # "pending"]_vars

\* a call has returned and cached the result of a fan-out of three or more calls
C14_Witness ==
  \E c \in Callers :
    /\ call[c].pc = "done"
    /\ call[c].path = "fresh"
    /\ call[c].invoked = FullFanout
    /\ call[c].invoked >= 3
    /\ cache.present
    /\ cache.data = call[c].ret

\* the adapter calls that make up the fan-out of the query's cycle (the request for
\* the NOAA grid points comes before the fan-out of fetchNOAAWeather)
FanoutAdapters ==
  CASE query.svc = "news" -> {f \in FeedIds : feeds[f]}
    [] query.svc = "events" -> {s \in SourceIds : EVENT_SOURCES[s].enabled}
    [] query.svc = "weather" -> NoaaIds \ {NoaaPoints}
    [] query.svc = "surf" -> 0..SpotCount(query.island)

\* C15 as stated: whenever a call waits on its fan-out, every adapter call of the
\* fan-out has been started, the tide call of getSurfData included.
C15_AllStartedBeforeWaiting ==
  [][\A c \in Callers :
       /\ (query.svc # "news" /\ call'[c].pc \in {"fanout", "tide"})
            => \A a \in FanoutAdapters : call'[c].res[a].st # "none"
       /\ (query.svc = "news" /\ call[c].pc = "idle" /\ call'[c].pc = "fanout")
            => \A a \in FanoutAdapters : call'[c].res[a].st # "none"]_vars

\* what a waiting call of getEvents, getWeatherData or getSurfData has started
StartedInStages ==
  \A c \in Callers :
    InFlight(c) =>
      LET res == call[c].res
      IN CASE query.svc = "news" -> TRUE
           [] query.svc = "events" ->
                \A a \in FanoutAdapters : res[a].st # "none"
           [] query.svc = "weather" ->
                IF call[c].pc = "points"
                  THEN \A a \in NoaaIds : res[a].st = "none" <=> a # NoaaPoints
                  ELSE \A a \in NoaaIds : res[a].st # "none"
           [] query.svc = "surf" ->
                IF call[c].pc = "fanout"
                  THEN /\ \A i \in 1..SpotCount(query.island) : res[i].st # "none"
                       /\ res[Tide].st = "none"
                  ELSE /\ \A i \in 1..SpotCount(query.island) : Settled(res[i])
                       /\ res[Tide].st # "none"

\* C15 amended: getEvents, getLatestNews and fetchNOAAWeather (after its request for
\* the grid points, which it awaits alone) start all their adapter calls before
\* waiting on any (getLatestNews: one call per feed enabled when it starts).
\* getSurfData starts all the spot calls together, waits for all of them, and starts
\* the tide call only then: a slow spot call delays the tide call.
C15_StartedInStages ==
  [][/\ StartedInStages'
     /\ \A c \in Callers :
          (query.svc = "news" /\ call[c].pc = "idle" /\ call'[c].pc = "fanout")
          => \A a \in FanoutAdapters : call'[c].res[a].st # "none"]_vars

\* getSurfData waits on a spot call that has not answered, two spot calls have, and
\* the tide call has not been started
C15_Witness ==
  \E c \in Callers :
    /\ query.svc = "surf"
    /\ SpotCount(query.island) = 3
    /\ call[c].pc = "fanout"
    /\ call[c].res[1].st = "pending"
    /\ Settled(call[c].res[2])
    /\ Settled(call[c].res[3])
    /\ call[c].res[Tide].st = "none"

\* fetchNOAAWeather waits on its three requests, all started, one of them settled
C15_WitnessWeather ==
  \E c \in Callers :
    /\ query.svc = "weather"
    /\ call[c].pc = "fanout"
    /\ call[c].res[NoaaGrid].st = "pending"
    /\ call[c].res[NoaaForecast].st = "pending"
    /\ Settled(call[c].res[NoaaAlerts])

\* C16 as stated: every adapter call settles after its timeout at the latest, so
\* every call of getWeatherData, getEvents, getSurfData and getLatestNews that has
\* started its upstream calls eventually returns.
C16_EveryCallReturns == \A c \in Callers : InFlight(c) ~> (call[c].pc = "done")

\* the promises of fetchFromSource, fetchFeed, fetchSpotData and fetchTideData are
\* never rejected
SourcePromisesFulfilled ==
  \A c \in Callers :
    (query.svc # "weather" /\ call[c].pc \notin {"idle", "done"})
    => \A a \in DOMAIN call[c].res : call[c].res[a].st # "rejected"

C18_WitnessEmpty ==
  \E c \in Callers :
    /\ query.svc = "news"
    /\ call[c].pc = "fanout"
    /\ AllSettled(call[c].res)
    /\ AllFailed(call[c].res)
    /\ fetchAllFeeds(call[c].res) = <<>>

\* whether a value holds static default or fallback data
HoldsFallback(v) ==
  CASE query.svc = "news" -> \E i \in 1..Len(v) : <<v[i]>> = getFallbackNews(v[i].publishedAt)
    [] query.svc = "events" ->
         \E i \in 1..Len(v) : v[i] \in Range(getFallbackEvents(""))
    [] query.svc = "weather" -> v.current = "default" \/ v.forecast = "default"
    [] query.svc = "surf" -> \/ \E i \in 1..Len(v.spots) : v.spots[i] = getFallbackSpotData(i)
                             \/ v.tides = getFallbackTideData

C19_WitnessWeather ==
  \E c \in Callers :
    /\ query.svc = "weather"
    /\ IsHit(c)
    /\ call[c].ret.current = "default"
    /\ call[c].ret.forecast = "parsed"

\* a step in which a call stores a freshly fetched value (cache.set)
CacheWrite == \E c \in Callers : InFlight(c) /\ call'[c].pc = "done" /\ call'[c].path = "fresh"

\* C20 as stated: a stored cache value is read-only: a step that is no cache write
\* and leaves the entry in place leaves the stored value and the order of its
\* records as they were, getTopSurfSpots included, so a value a call got from the
\* entry is still the value the entry holds.
C20_StoredValueReadOnly ==
  [][/\ (cache.present /\ cache'.present /\ ~CacheWrite) => cache'.data = cache.data
     /\ \A c \in shared' : call'[c].pc = "done" => call'[c].ret = cache'.data]_vars

\* C21: a fan-out invokes exactly the adapters that are enabled when it starts (the
\* feeds of RSS_FEEDS with enabled set, toggleFeed's changes included, and the
\* enabled entries of EVENT_SOURCES); an adapter not invoked at the start is not
\* invoked later in the cycle, and every record of the cycle's result comes from an
\* adapter the cycle invoked.
C21_OnlyEnabledInvoked ==
  [][\A c \in Callers :
       /\ (query.svc = "news" /\ call[c].pc = "idle" /\ call'[c].pc = "fanout") =>
            \A f \in FeedIds : (call'[c].res[f].st # "none") <=> feeds[f]
       /\ (query.svc = "events" /\ call[c].pc = "idle" /\ call'[c].pc = "fanout") =>
            \A s \in SourceIds : (call'[c].res[s].st # "none") <=> EVENT_SOURCES[s].enabled
       /\ (query.svc \in {"news", "events"} /\ call[c].pc = "fanout" /\ call'[c].pc = "fanout") =>
            \A a \in DOMAIN call[c].res :
              call[c].res[a].st = "none" => call'[c].res[a] = call[c].res[a]
       /\ (query.svc \in {"news", "events"} /\ call[c].pc = "fanout" /\ call'[c].pc = "done") =>
            \A i \in 1..Len(call'[c].ret) : call[c].res[call'[c].ret[i].src].st # "none"]_vars

\* a getLatestNews call that started while a feed was disabled has returned articles
\* of the two other feeds, the feed having been enabled again meanwhile
C21_Witness ==
  \E c \in Callers :
    /\ query.svc = "news"
    /\ call[c].pc = "done"
    /\ call[c].path = "fresh"
    /\ call[c].invoked = Len(RSS_FEEDS) - 1
    /\ \A f \in FeedIds : feeds[f]
    /\ Len(call[c].ret) = 2

\* C30: after toggleFeed or clearCache has returned, no getLatestNews call is served
\* from the cache a result that was computed by a fan-out started before the clear.
C30_ClearIsEffective ==
  [][\A c \in Callers :
       (query.svc = "news" /\ call[c].pc = "idle" /\ call'[c].pc = "done"
        /\ call'[c].path = "hit")
       => ~staleEntry]_vars

\* the items of the feeds' answers an article can have been made of
ItemsOf(r) ==
  {item \in UNION {Range(answer.items) : answer \in RssAnswers} :
     item.link = r.originalUrl /\ item.pubDate = r.publishedAt}

\* C22 as stated: the score calculateEventScore gives a record is the same at the
\* time the call was made and at any later time; so is calculateRelevanceScore's.
C22_ScoringIsPure ==
  \A c \in Callers :
    (query.svc \in {"news", "events"} /\ call[c].pc = "done" /\ ~call[c].rejected) =>
      \A r \in Range(call[c].ret) :
        IF query.svc = "news"
          THEN \A item \in ItemsOf(r) : r.relevanceScore = calculateRelevanceScore(item)
          ELSE calculateEventScore(r, now) = calculateEventScore(r, call[c].t0)

\* C22 amended: calculateRelevanceScore is a function of the article's text alone:
\* the score of a returned article is that of its feed item whatever the time of the
\* call.  calculateEventScore is a function of the event's fields and of Date.now():
\* between two calls for the same event it changes by the 2 points of the three-day
\* boost exactly when the event's start has come within 72 hours in between, and
\* not otherwise.
C22_ScoreFunctionOfRecordAndTime ==
  \A c \in Callers :
    (query.svc \in {"news", "events"} /\ call[c].pc = "done" /\ ~call[c].rejected) =>
      \A r \in Range(call[c].ret) :
        IF query.svc = "news"
          THEN \A item \in ItemsOf(r) : r.relevanceScore = calculateRelevanceScore(item)
          ELSE calculateEventScore(r, now)
                 = calculateEventScore(r, call[c].t0)
                   + (IF r.startDate - now <= 72 * HourMs /\ r.startDate - call[c].t0 > 72 * HourMs
                        THEN 2 ELSE 0)

\* getEvents has returned, a millisecond after it was called, an event that was more
\* than 72 hours ahead at the call and is no longer: its score has changed
C22_Witness ==
  \E c \in Callers :
    /\ query.svc = "events"
    /\ call[c].pc = "done"
    /\ call[c].path = "fresh"
    /\ call[c].t0 = 0
    /\ now = 1
    /\ \E r \in Range(call[c].ret) :
         calculateEventScore(r, now) = calculateEventScore(r, call[c].t0) + 2

\* the rateLimitMap of the limiter the behaviour follows and the limit of a key
LimiterMap == IF query.svc = "middleware" THEN rateLimitMap ELSE routeRateLimitMap
LimitOf(key) ==
  IF query.svc = "middleware" THEN RateLimitConfig(RATE_LIMITS, key[2]).requests ELSE 5

\* C23: rate limiting is a fixed window per key.  For every key that has made a
\* request, the number of requests allowed since the first request of its current
\* window is at most the limit and is the stored count (so a blocked request has
\* not changed the count), and the stored resetTime is the start of that window
\* plus windowMs (so the first request after resetTime was allowed and started a
\* new window, with count 1).
C23_FixedWindowPerKey ==
  /\ DOMAIN window = DOMAIN LimiterMap
  /\ \A key \in DOMAIN window :
       /\ window[key].allowed <= LimitOf(key)
       /\ window[key].allowed >= 1
       /\ LimiterMap[key].count = window[key].allowed
       /\ LimiterMap[key].resetTime = window[key].start + WindowMs

\* a key is blocked in its second window, after the limit's worth of allowed
\* requests, while the other key has made fewer
C23_Witness ==
  /\ response.status = 429
  /\ response.key \in DOMAIN window
  /\ window[response.key].start > WindowMs
  /\ window[response.key].allowed = LimitOf(response.key)
  /\ \E key \in DOMAIN window : window[key].allowed < window[response.key].allowed

\* C24: the X-RateLimit-Remaining the middleware reports is the limit minus the
\* number of requests allowed so far in the key's current window, this one
\* included, and 0 on a blocked request.
C24_RemainingIsExact ==
  (response.by = "middleware" /\ "X-RateLimit-Remaining" \in response.headers) =>
    response.remaining =
      IF response.status = 429 THEN 0
      ELSE LimitOf(response.key) - window[response.key].allowed

\* C25: every response of the middleware for a path that is no static asset
\* carries the security headers, the 429 response included.
C25_SecurityHeadersOnEveryResponse ==
  (response.by = "middleware" /\ ~isStaticAsset(response.key[2])) =>
    SecurityHeaders \subseteq response.headers

\* the email has a record with subscribed == true
IsSubscribed(subs, email) ==
  IndexOf(subs, email) # 0 /\ subs[IndexOf(subs, email)].subscribed

\* C26: an email is subscribed exactly when its most recent successful call was
\* subscribeEmail; a subscribeEmail that succeeds never finds the email already
\* subscribed; a reactivation keeps the record's id and unsubscribeToken; every
\* record once in the map stays in it; and getSubscriberCount is the number of
\* records with subscribed == true.
C26_SubscriptionStateMachine ==
  [][/\ \A email \in ValidEmails :
          IsSubscribed(subscribers', email) <=> lastOk'[email] = "subscribe"
     /\ (returned'.op = "subscribeEmail" /\ subscribers' # subscribers)
          => ~IsSubscribed(subscribers, returned'.email)
     /\ (returned'.op = "subscribeEmail" /\ subscribers' # subscribers
         /\ IndexOf(subscribers, returned'.email) # 0)
          => LET i == IndexOf(subscribers, returned'.email)
             IN /\ subscribers'[i].id = subscribers[i].id
                /\ subscribers'[i].unsubscribeToken = subscribers[i].unsubscribeToken
     /\ \A id \in stored' : \E j \in 1..Len(subscribers') : subscribers'[j].id = id
     /\ getSubscriberCount' =
          Cardinality({i \in 1..Len(subscribers') : subscribers'[i].subscribed})]_vars

\* C27: a subscribeEmail or unsubscribeEmail call that returns success == false
\* leaves the subscribers map and every record in it as it was.
C27_StateUnchangedOnError ==
  [][(returned'.op # "none" /\ ~returned'.success) => subscribers' = subscribers]_vars

\* unsubscribeEmail with a token that is not the record's has just failed, and
\* the record is still subscribed
C27_Witness ==
  /\ returned.op = "unsubscribeEmail"
  /\ returned.message = "Invalid unsubscribe token"
  /\ IsSubscribed(subscribers, returned.email)

\* C28: when sendDailyBriefing returns, sent + failed is the number of
\* subscribers that were active when it started, generateBriefingData has run
\* at most once for each island, and no subscriber that was inactive at the
\* start has been sent a briefing.
C28_EveryActiveSubscriberOnce ==
  briefing.pc = "done" =>
    /\ briefing.sent + briefing.failed = briefing.atStart
    /\ \A i, j \in 1..Len(briefing.generated) :
         briefing.generated[i].island = briefing.generated[j].island => i = j
    /\ briefing.sentTo \cap briefing.inactive = {}

\* a briefing for two active subscribers of one island has returned: the data
\* was generated once and both were sent
C28_Witness ==
  /\ briefing.pc = "done"
  /\ briefing.atStart = 2
  /\ Len(briefing.generated) = 1
  /\ briefing.sent = 2

\* C29: whatever island its subscribers chose, sendDailyBriefing gets a defined
\* topSurfSpot from generateBriefingData and counts none of them as failed.
C29_EveryIslandIsSent ==
  briefing.pc \in {"loop", "done"} =>
    /\ \A i \in 1..Len(briefing.generated) : briefing.generated[i].topSurfSpot # Undefined
    /\ briefing.failed = 0

====
